---- MODULE Spec2Model ----
(***************************************************************************)
(* A model of the command-safety verifier (src/command_verifier.py), the   *)
(* hybrid question classifier (src/question_classifier.py) and the chat    *)
(* orchestrator that drives them (src/app.py, chat).                       *)
(*                                                                         *)
(* Strings are TLA+ strings; TLC evaluates Len, \o and SubSeq on them, so  *)
(* the regular expressions of the source are matched character by          *)
(* character.  Python floats are modelled exactly, in thousandths          *)
(* (0.7 is 700): every constant of the source is a multiple of 0.05 and    *)
(* the inputs drawn for the AI reply are multiples of 0.05 too, so the     *)
(* weighted average 0.4*k + 0.6*a is a whole number of thousandths.        *)
(***************************************************************************)
EXTENDS Integers, Sequences, FiniteSets, TLC

VARIABLES
    command,     \* CommandVerifier: the value passed as `command`
    returned,    \* CommandVerifier: the operations that have returned
    outcome,     \* CommandVerifier.is_safe_command: how the call ended
    placeholder, \* CommandVerifier.has_placeholders: how the call ended
    sanitized,   \* CommandVerifier.sanitize_command: the results of successive calls
    question,           \* classify_question: the `message` argument
    history,            \* classify_question: the `conversation_history` argument
    ai_client,          \* classify_question: whether an `ai_client` is supplied
    stage,              \* classify_question: the step the call is at
    final_result,       \* classify_question: keyword_result, then final_result
    ai_reply,           \* what ai_client.classify_question did
    ai_classification,  \* classify_question: ai_result
    ai_calls,           \* the number of calls of ai_client.classify_question
    classification,     \* classify_question: how the call ended
    data,               \* chat: the JSON body of the request
    user_prefs,         \* chat: max_commands_preference of the user, 0 when unset
    active_api_key,     \* chat: whether the database holds an active API key
    session_history,    \* app.conversation_history[session_id]
    chat_stage,         \* chat: the step the handler is at
    max_commands,       \* chat: the command budget of the discovery round
    command_outputs,    \* chat: the keys of the command_outputs dict
    executed_commands,  \* chat: the commands run, in order
    kubectl_calls,      \* the argument lists handed to _run_kubectl_command
    response,           \* chat: the response sent
    invocations,        \* the concurrent calls: arguments, position, locals
    heap,               \* the objects the concurrent calls can all reach
    db,                 \* app.db: the users, kubeconfigs and api_keys tables
    served,             \* the /admin requests served, with their responses
    twin_replies,       \* two replies of the AI collaborator to one question
    twin_results,       \* classify_question: what it returns on each of them
    app_conversation_history, \* app.conversation_history: session_id -> messages
    chat_db,            \* the chat_history table: <<user_id, session_id>> -> messages
    passed              \* the histories handed to the classifier and the LLM

verifier_vars == <<command, returned, outcome, placeholder, sanitized>>

classifier_vars ==
    <<question, history, ai_client, stage, final_result, ai_reply,
      ai_classification, ai_calls, classification>>

chat_vars ==
    <<data, user_prefs, active_api_key, session_history, chat_stage, max_commands,
      command_outputs, executed_commands, kubectl_calls, response>>

concurrent_vars == <<invocations, heap>>

admin_vars == <<db, served>>

twin_vars == <<twin_replies, twin_results>>

sessions_vars == <<app_conversation_history, chat_db, passed>>

other_vars == <<concurrent_vars, admin_vars, twin_vars, sessions_vars>>

vars == <<verifier_vars, classifier_vars, chat_vars, other_vars>>

(***************************************************************************)
(* Python's str operations                                                 *)
(***************************************************************************)
Char(s, i) == SubSeq(s, i, i)

UPPER == "ABCDEFGHIJKLMNOPQRSTUVWXYZ"
LOWER == "abcdefghijklmnopqrstuvwxyz"
DIGITS == "0123456789"

CharsOf(s) == {Char(s, k) : k \in 1..Len(s)}

\* str.isspace for the characters of the model's inputs
Whitespace == {" ", "\t", "\n"}

\* the grave accent: a TLA+ string cannot hold it, and the form feed, which
\* no input of the model uses as white space, stands for it
Grave == "\f"

\* \w of the re module
WordChars == CharsOf(UPPER) \cup CharsOf(LOWER) \cup CharsOf(DIGITS) \cup {"_"}

LowerOf == [c \in CharsOf(UPPER) |->
              Char(LOWER, CHOOSE k \in 1..Len(UPPER) : Char(UPPER, k) = c)]

RECURSIVE lower(_)
lower(s) ==
    IF s = "" THEN ""
    ELSE LET c == Head(s)
         IN  (IF c \in DOMAIN LowerOf THEN LowerOf[c] ELSE c) \o lower(Tail(s))

RECURSIVE lstrip(_)
lstrip(s) == IF s # "" /\ Head(s) \in Whitespace THEN lstrip(Tail(s)) ELSE s

RECURSIVE rstrip(_)
rstrip(s) ==
    IF s # "" /\ Char(s, Len(s)) \in Whitespace
    THEN rstrip(SubSeq(s, 1, Len(s) - 1))
    ELSE s

strip(s) == rstrip(lstrip(s))

startswith(s, p) == Len(p) <= Len(s) /\ SubSeq(s, 1, Len(p)) = p

\* the index of the first character of s from position i on that is (ws = TRUE)
\* or is not (ws = FALSE) whitespace; Len(s) + 1 when there is none
RECURSIVE Scan(_, _, _)
Scan(s, i, ws) ==
    IF i > Len(s) \/ ((Char(s, i) \in Whitespace) = ws) THEN i
    ELSE Scan(s, i + 1, ws)

\* str.split(): the maximal runs of non-whitespace characters, in order
RECURSIVE SplitFrom(_, _)
SplitFrom(s, i) ==
    LET b == Scan(s, i, FALSE)
        e == Scan(s, b, TRUE)
    IN  IF b > Len(s) THEN <<>>
        ELSE <<SubSeq(s, b, e - 1)>> \o SplitFrom(s, e)

split(s) == SplitFrom(s, 1)

\* part.split('=')[0]: what precedes the first '='
RECURSIVE BeforeEq(_, _)
BeforeEq(s, i) ==
    IF i > Len(s) \/ Char(s, i) = "=" THEN SubSeq(s, 1, i - 1)
    ELSE BeforeEq(s, i + 1)

\* ', '.join(seq)
RECURSIVE join(_, _)
join(sep, seq) ==
    IF seq = <<>> THEN ""
    ELSE IF Len(seq) = 1 THEN seq[1]
    ELSE seq[1] \o sep \o join(sep, Tail(seq))

Range(seq) == {seq[k] : k \in DOMAIN seq}

(***************************************************************************)
(* Python's re.search, for the constructs the source's patterns use.  A    *)
(* pattern is a tree; MatchEnds is the set of positions at which a match   *)
(* of the pattern that starts at position i can end, so a search succeeds  *)
(* exactly when the backtracking matcher of re finds a match.              *)
(***************************************************************************)
Lit(w) == <<"lit", w>>          \* the characters of w
Cls(k) == <<"cls", k>>          \* one character of class k
Cat(rs) == <<"cat", rs>>        \* the patterns of rs one after the other
Alt(rs) == <<"alt", rs>>        \* r1|r2|...
Star(r) == <<"star", r>>        \* r*
Plus(r) == <<"plus", r>>        \* r+
Opt(r) == <<"opt", r>>          \* r?
NotAhead(r) == <<"nla", r>>     \* (?!r)
WordBoundary == <<"wb">>        \* \b

InClass(k, c) ==
    CASE k = "\\s" -> c \in Whitespace
      [] k = "\\w" -> c \in WordChars
      [] k = "." -> c # "\n"
      [] k = "[^>]" -> c # ">"
      [] k = "[^}]" -> c # "}"
      [] k = "[^\\]]" -> c # "]"

IsWordAt(s, i) == i >= 1 /\ i <= Len(s) /\ Char(s, i) \in WordChars

RECURSIVE MatchEnds(_, _, _)
RECURSIVE CatEnds(_, _, _, _)
RECURSIVE StarEnds(_, _, _, _)

MatchEnds(re, s, i) ==
    CASE re[1] = "lit" ->
            LET n == Len(re[2])
            IN  IF i + n - 1 <= Len(s) /\ SubSeq(s, i, i + n - 1) = re[2]
                THEN {i + n} ELSE {}
      [] re[1] = "cls" ->
            IF i <= Len(s) /\ InClass(re[2], Char(s, i)) THEN {i + 1} ELSE {}
      [] re[1] = "cat" -> CatEnds(re[2], 1, s, {i})
      [] re[1] = "alt" -> UNION {MatchEnds(re[2][k], s, i) : k \in DOMAIN re[2]}
      [] re[1] = "star" -> StarEnds(re[2], s, {i}, {i})
      [] re[1] = "plus" ->
            LET first == MatchEnds(re[2], s, i)
            IN  StarEnds(re[2], s, first, first)
      [] re[1] = "opt" -> {i} \cup MatchEnds(re[2], s, i)
      [] re[1] = "nla" -> IF MatchEnds(re[2], s, i) = {} THEN {i} ELSE {}
      [] re[1] = "wb" ->
            IF IsWordAt(s, i - 1) # IsWordAt(s, i) THEN {i} ELSE {}

CatEnds(rs, k, s, from) ==
    IF k > Len(rs) \/ from = {} THEN from
    ELSE CatEnds(rs, k + 1, s, UNION {MatchEnds(rs[k], s, j) : j \in from})

StarEnds(r, s, frontier, seen) ==
    LET next == UNION {MatchEnds(r, s, j) : j \in frontier} \ seen
    IN  IF next = {} THEN seen ELSE StarEnds(r, s, next, seen \cup next)

\* re.search(pattern, s)
search(re, s) == \E i \in 1..(Len(s) + 1) : MatchEnds(re, s, i) # {}

\* the pattern with its literals in lower case
RECURSIVE LowerRe(_)
LowerRe(re) ==
    CASE re[1] = "lit" -> Lit(lower(re[2]))
      [] re[1] \in {"cat", "alt"} ->
            <<re[1], [k \in DOMAIN re[2] |-> LowerRe(re[2][k])]>>
      [] re[1] \in {"star", "plus", "opt", "nla"} -> <<re[1], LowerRe(re[2])>>
      [] OTHER -> re

\* re.search(pattern, s, re.IGNORECASE): letters are compared case-folded
search_ignorecase(re, s) == search(LowerRe(re), lower(s))

(***************************************************************************)
(* CommandVerifier: the pattern library                                    *)
(***************************************************************************)
\* a mutating verb listed among the read-only ones
READ_ONLY_VERBS_WithDelete ==
    {"get", "describe", "logs", "explain", "top", "auth", "api-versions",
     "cluster-info", "version", "config", "view", "help", "delete"}

READ_ONLY_VERBS ==
    {"get", "describe", "logs", "explain", "top", "auth", "api-versions",
     "cluster-info", "version", "config", "view", "help"}

\* sorted(cls.READ_ONLY_VERBS)
SortedVerbs ==
    <<"api-versions", "auth", "cluster-info", "config", "describe", "explain",
      "get", "help", "logs", "top", "version", "view">>

\* (rm|mv|cp|sh|bash|zsh|fish|python|perl|ruby|php)
ShellTools ==
    <<Lit("rm"), Lit("mv"), Lit("cp"), Lit("sh"), Lit("bash"), Lit("zsh"),
      Lit("fish"), Lit("python"), Lit("perl"), Lit("ruby"), Lit("php")>>

\* (grep|awk|sed|xargs|rm|mv|cp|sh|bash|zsh|fish|python|perl|ruby|php)
PipeTools == <<Lit("grep"), Lit("awk"), Lit("sed"), Lit("xargs")>> \o ShellTools

Pat(text, re) == [src |-> text, re |-> re]

\* operator, \s*, one of the tools
Chained(op, tools) == Cat(<<Lit(op), Star(Cls("\\s")), Alt(tools)>>)

\* \s, operator, \s+
Redirect(op) == Cat(<<Cls("\\s"), Lit(op), Plus(Cls("\\s"))>>)

UNSAFE_PATTERNS ==
    << \* Command injection patterns
       Pat("\\|\\s*(grep|awk|sed|xargs|rm|mv|cp|sh|bash|zsh|fish|python|perl|ruby|php)",
           Chained("|", PipeTools)),
       Pat(";\\s*(rm|mv|cp|sh|bash|zsh|fish|python|perl|ruby|php)",
           Chained(";", ShellTools)),
       Pat("&\\s*(rm|mv|cp|sh|bash|zsh|fish|python|perl|ruby|php)",
           Chained("&", ShellTools)),
       Pat("&&\\s*(rm|mv|cp|sh|bash|zsh|fish|python|perl|ruby|php)",
           Chained("&&", ShellTools)),
       Pat("\\|\\|\\s*(rm|mv|cp|sh|bash|zsh|fish|python|perl|ruby|php)",
           Chained("||", ShellTools)),
       \* File operations
       Pat("\\s>\\s+(?!/dev/null\\b)",
           Cat(<<Redirect(">"),
                 NotAhead(Cat(<<Lit("/dev/null"), WordBoundary>>))>>)),
       Pat("\\s>>\\s+", Redirect(">>")),
       Pat("\\s<\\s+(?!/dev/)",
           Cat(<<Redirect("<"), NotAhead(Lit("/dev/"))>>)),
       Pat("\\s2>\\s+", Redirect("2>")),
       Pat("\\s1>\\s+", Redirect("1>")),
       \* Command substitution
       Pat("\\$\\(", Lit("$(")),
       Pat(Grave \o ".*" \o Grave, Cat(<<Lit(Grave), Star(Cls(".")), Lit(Grave)>>)),
       \* Environment variables
       Pat("\\$HOME", Lit("$HOME")),
       Pat("\\$PATH", Lit("$PATH")),
       Pat("\\$SHELL", Lit("$SHELL")),
       \* Direct file system access
       Pat("/etc/", Lit("/etc/")),
       Pat("/var/", Lit("/var/")),
       Pat("/usr/", Lit("/usr/")),
       Pat("/bin/", Lit("/bin/")),
       Pat("/sbin/", Lit("/sbin/")),
       Pat("/tmp/", Lit("/tmp/")),
       Pat("~/", Lit("~/")),
       \* Network operations
       Pat("curl", Lit("curl")),
       Pat("wget", Lit("wget")),
       Pat("nc", Lit("nc")),
       Pat("netcat", Lit("netcat")),
       Pat("telnet", Lit("telnet")),
       Pat("ssh", Lit("ssh")),
       Pat("scp", Lit("scp")),
       Pat("rsync", Lit("rsync")),
       \* Process control
       Pat("kill", Lit("kill")),
       Pat("ps", Lit("ps")),
       Pat("pkill", Lit("pkill")),
       Pat("killall", Lit("killall")),
       \* Package management
       Pat("apt", Lit("apt")),
       Pat("yum", Lit("yum")),
       Pat("dnf", Lit("dnf")),
       Pat("pacman", Lit("pacman")),
       Pat("brew", Lit("brew")),
       \* Shell features
       Pat("\\*\\*", Lit("**")),
       Pat("\\?\\(", Lit("?" \o "(")),
       Pat("\\$\\{", Lit("${")),
       Pat("<<", Lit("<<")),
       Pat("<<<", Lit("<<<")) >>

ALLOWED_PATTERNS ==
    << Pat("<[^>]+>", Cat(<<Lit("<"), Plus(Cls("[^>]")), Lit(">")>>)),
       Pat(">\\s*/dev/null", Cat(<<Lit(">"), Star(Cls("\\s")), Lit("/dev/null")>>)),
       Pat("</dev/", Lit("</dev/")) >>

SAFE_FLAGS ==
    {"-n", "--namespace", "-o", "--output", "-w", "--watch", "--watch-only",
     "-l", "--labels", "-f", "--field-selector", "-A", "--all-namespaces",
     "-s", "--show-labels", "--show-managed-fields", "--sort-by", "--selector",
     "--server-side", "--chunk-size", "-v", "--v", "--vmodule",
     "--log-flush-frequency", "--log-backtrace-at", "--log-dir",
     "--logtostderr", "--alsologtostderr", "--log-file", "--log-file-max-size",
     "--skip-headers", "--skip-log-headers", "--one-output", "--log-json",
     "--short", "--client", "--server"}

(***************************************************************************)
(* Python values passed where a str is expected: t is the type's name and  *)
(* v the text of a str (the repr of anything else).                        *)
(***************************************************************************)
PyStr(s) == [t |-> "str", v |-> s]
PyNone == [t |-> "NoneType", v |-> "None"]
PyInt(r) == [t |-> "int", v |-> r]
PyList(r) == [t |-> "list", v |-> r]

\* bool(x)
Truthy(x) ==
    CASE x.t = "str" -> x.v # ""
      [] x.t = "NoneType" -> FALSE
      [] x.t = "int" -> x.v # "0"
      [] x.t = "list" -> x.v # "[]"

\* how a call ends: it returns a value, or an exception leaves it
Returned(value) == [raised |-> FALSE, value |-> value, exc |-> ""]
Raised(message) == [raised |-> TRUE, value |-> <<>>, exc |-> message]
NotCalled == [raised |-> FALSE, value |-> <<>>, exc |-> ""]

\* AttributeError: x has no method `name`
NoAttribute(x, name) ==
    Raised("'" \o x.t \o "' object has no attribute '" \o name \o "'")

Verdict(ok, reason) == [ok |-> ok, reason |-> reason]

\* no reply of the collaborator has been received
NoReply == [kind |-> "none"]

\* no chat request is in progress
ChatIdle ==
    /\ data = <<>>
    /\ user_prefs = 0
    /\ active_api_key = FALSE
    /\ session_history = <<>>
    /\ chat_stage = "idle"
    /\ max_commands = 0
    /\ command_outputs = {}
    /\ executed_commands = <<>>
    /\ kubectl_calls = <<>>
    /\ response = <<>>

\* no classify_question call is in progress
ClassifierIdle ==
    /\ question = PyNone
    /\ history = <<>>
    /\ ai_client = FALSE
    /\ stage = "idle"
    /\ final_result = NotCalled
    /\ ai_reply = NoReply
    /\ ai_classification = NotCalled
    /\ ai_calls = 0
    /\ classification = NotCalled

\* no concurrent calls are in progress
ConcurrentIdle ==
    /\ invocations = <<>>
    /\ heap = <<>>

\* no /admin request has been made
AdminIdle ==
    /\ db = <<>>
    /\ served = <<>>

\* no pair of replies is being compared
TwinsIdle ==
    /\ twin_replies = <<>>
    /\ twin_results = <<>>

\* no sequence of chat requests is in progress
SessionsIdle ==
    /\ app_conversation_history = <<>>
    /\ chat_db = <<>>
    /\ passed = <<>>

OthersIdle == ConcurrentIdle /\ AdminIdle /\ TwinsIdle /\ SessionsIdle

(***************************************************************************)
(* CommandVerifier.is_safe_command                                         *)
(***************************************************************************)
\* the first pattern of UNSAFE_PATTERNS, in table order, that matches while no
\* pattern of ALLOWED_PATTERNS matches the command; 0 when there is none
is_allowed(cmd) ==
    \E a \in DOMAIN ALLOWED_PATTERNS : search(ALLOWED_PATTERNS[a].re, cmd)

\* re.search(pattern, command, re.IGNORECASE) compares letters case-folded: the
\* patterns are folded once, the command at each call
UnsafeFolded == [p \in DOMAIN UNSAFE_PATTERNS |-> LowerRe(UNSAFE_PATTERNS[p].re)]

FirstUnsafe(cmd) ==
    LET low == lower(cmd)
        hits == {p \in DOMAIN UNSAFE_PATTERNS : search(UnsafeFolded[p], low)}
    IN  IF hits = {} \/ is_allowed(cmd) THEN 0
        ELSE CHOOSE p \in hits : \A q \in hits : p <= q

\* the scan of the flags started one token late
FirstUnsafeFlag_FromFourth(parts) ==
    LET bad == {k \in 4..Len(parts) :
                   /\ startswith(parts[k], "-")
                   /\ BeforeEq(parts[k], 1) \notin SAFE_FLAGS}
    IN  IF bad = {} THEN 0 ELSE CHOOSE k \in bad : \A j \in bad : k <= j

\* the first token of parts[2:] that starts with '-' and whose name is not in
\* SAFE_FLAGS; 0 when there is none
FirstUnsafeFlag(parts) ==
    LET bad == {k \in 3..Len(parts) :
                   /\ startswith(parts[k], "-")
                   /\ BeforeEq(parts[k], 1) \notin SAFE_FLAGS}
    IN  IF bad = {} THEN 0 ELSE CHOOSE k \in bad : \A j \in bad : k <= j

\* only the number of tokens looked at
MissingArgument_CountOnly(parts) == Len(parts) < 3

\* len(parts) < 3 or not any(not p.startswith('-') for p in parts[2:])
MissingArgument(parts) ==
    Len(parts) < 3 \/ ~ \E k \in 3..Len(parts) : ~startswith(parts[k], "-")

\* the checks that follow command = command.strip()
AnalyseCommand(cmd) ==
    LET parts == split(cmd)
        verb == parts[2]
        unsafe == FirstUnsafe(cmd)
        flag == FirstUnsafeFlag(parts)
    IN  IF ~startswith(cmd, "kubectl")
        THEN Verdict(FALSE, "Command must start with 'kubectl'")
        ELSE IF Len(parts) < 2
        THEN Verdict(FALSE, "Incomplete kubectl command")
        ELSE IF verb \notin READ_ONLY_VERBS
        THEN Verdict(FALSE, "Command verb '" \o verb
                            \o "' is not read-only. Safe verbs are: "
                            \o join(", ", SortedVerbs))
        ELSE IF unsafe # 0
        THEN Verdict(FALSE, "Command contains potentially dangerous pattern: "
                            \o UNSAFE_PATTERNS[unsafe].src)
        ELSE IF flag # 0
        THEN Verdict(FALSE, "Unsafe flag or option: " \o BeforeEq(parts[flag], 1))
        ELSE IF verb = "logs" /\ MissingArgument(parts)
        THEN Verdict(FALSE, "logs command requires a pod name")
        ELSE IF verb = "get" /\ MissingArgument(parts)
        THEN Verdict(FALSE, "get command requires a resource type")
        ELSE IF verb = "describe" /\ MissingArgument(parts)
        THEN Verdict(FALSE, "describe command requires a resource type and name")
        ELSE Verdict(TRUE, "Command is safe")

\* the body of the try block
is_safe_command_body(x) ==
    IF ~Truthy(x) THEN Returned(Verdict(FALSE, "Empty command"))
    ELSE IF x.t # "str" THEN NoAttribute(x, "strip")
    ELSE IF strip(x.v) = "" THEN Returned(Verdict(FALSE, "Empty command"))
    ELSE Returned(AnalyseCommand(strip(x.v)))

\* the analysis without its except clause
is_safe_command_Unguarded(x) == is_safe_command_body(x)

\* except Exception as e: return False, f"Error verifying command: {str(e)}"
is_safe_command(x) ==
    LET r == is_safe_command_body(x)
    IN  IF r.raised
        THEN Returned(Verdict(FALSE, "Error verifying command: " \o r.exc))
        ELSE r

(***************************************************************************)
(* CommandVerifier.has_placeholders                                        *)
(***************************************************************************)
\* [^x]+ between an opening and a closing bracket
Bracketed(open, inside, close) == Cat(<<Lit(open), Plus(Cls(inside)), Lit(close)>>)

placeholder_patterns ==
    << Pat("<[^>]+>", Bracketed("<", "[^>]", ">")),
       Pat("\\{[^}]+\\}", Bracketed("{", "[^}]", "}")),
       Pat("\\[[^\\]]+\\]", Bracketed("[", "[^\\]]", "]")),
       Pat("pod-name", Lit("pod-name")),
       Pat("namespace-name", Lit("namespace-name")),
       Pat("service-name", Lit("service-name")),
       Pat("deployment-name", Lit("deployment-name")),
       Pat("resource-name", Lit("resource-name")) >>

PlaceholderFolded ==
    [p \in DOMAIN placeholder_patterns |-> LowerRe(placeholder_patterns[p].re)]

\* a mutation: the patterns are searched without re.IGNORECASE
has_placeholders_body_CaseSensitive(x) ==
    IF x.t # "str" THEN Raised("expected string or bytes-like object")
    ELSE LET hits == {p \in DOMAIN placeholder_patterns :
                         search(placeholder_patterns[p].re, x.v)}
         IN  IF hits = {} THEN Returned(Verdict(FALSE, "No placeholders found"))
             ELSE Returned(Verdict(TRUE, "Command contains placeholder pattern: "
                      \o placeholder_patterns[CHOOSE p \in hits :
                                                 \A q \in hits : p <= q].src))

\* the body of the try block; re.search raises TypeError on a non-string
has_placeholders_body(x) ==
    IF x.t # "str" THEN Raised("expected string or bytes-like object")
    ELSE LET low == lower(x.v)
             hits == {p \in DOMAIN placeholder_patterns :
                         search(PlaceholderFolded[p], low)}
         IN  IF hits = {} THEN Returned(Verdict(FALSE, "No placeholders found"))
             ELSE Returned(Verdict(TRUE, "Command contains placeholder pattern: "
                      \o placeholder_patterns[CHOOSE p \in hits :
                                                 \A q \in hits : p <= q].src))

\* except Exception as e: return False, f"Error checking placeholders: {str(e)}"
has_placeholders(x) ==
    LET r == has_placeholders_body(x)
    IN  IF r.raised
        THEN Returned(Verdict(FALSE, "Error checking placeholders: " \o r.exc))
        ELSE r

(***************************************************************************)
(* CommandVerifier.sanitize_command                                        *)
(***************************************************************************)
\* U+0001, a control character that is not white space
SOH == ""

\* the characters of [\x00-\x1f\x7f-\x9f] among those the inputs are made of
ControlChars == {"\t", "\n", SOH}

\* re.sub(r'[\x00-\x1f\x7f-\x9f]', '', s)
RECURSIVE RemoveControls(_)
RemoveControls(s) ==
    IF s = "" THEN ""
    ELSE (IF Head(s) \in ControlChars THEN "" ELSE Head(s))
         \o RemoveControls(Tail(s))

\* the method has no try block: command.split() raises on a non-string
sanitize_command(x) ==
    IF x.t # "str" THEN NoAttribute(x, "split")
    ELSE Returned(strip(RemoveControls(join(" ", split(x.v)))))

(***************************************************************************)
(* The verifier called on one command.  The two operations are class       *)
(* methods without state: either may be called, in any order.              *)
(***************************************************************************)
\* the commands the verifier is called on: a program name, a verb, arguments
\* and a tail, each drawn from the constructs the pattern library is about
ProgramNames == {"kubectl", "kubectlx", " kubectl"}

VerbInputs == {"", " get", " logs", " describe", " version", " delete"}

ArgumentInputs ==
    {"", " pods", " pods -n default", " -A", " --made-up-flag",
     " pods --made-up-flag", " pods -n=apps", " <pod-name>"}

TailInputs ==
    {"", " ", " > /dev/null", " > /tmp/out.txt", " >out.txt", " | rm -rf /",
     " | sh", " > /dev/null | sh", " $(id)", " 2> err"}

StringInputs ==
    {p \o v \o a \o tl :
        p \in ProgramNames, v \in VerbInputs, a \in ArgumentInputs, tl \in TailInputs}

\* values that are not commands at all
OtherInputs ==
    {PyStr(""), PyStr("  "), PyStr("KUBECTL get pods"), PyNone, PyInt("0"),
     PyInt("5"), PyList("['kubectl']")}

CommandInputs == {PyStr(s) : s \in StringInputs} \cup OtherInputs

InitVerifier ==
    /\ command \in CommandInputs
    /\ returned = {}
    /\ outcome = NotCalled
    /\ placeholder = NotCalled
    /\ sanitized = <<>>
    /\ ClassifierIdle
    /\ ChatIdle
    /\ OthersIdle

\* is_safe, reason = CommandVerifier.is_safe_command(command)
VerifyCommand ==
    /\ "is_safe_command" \notin returned
    /\ outcome' = is_safe_command(command)
    /\ returned' = returned \cup {"is_safe_command"}
    /\ UNCHANGED <<command, placeholder, sanitized, classifier_vars, other_vars, chat_vars>>

\* has, reason = CommandVerifier.has_placeholders(command)
CheckPlaceholders ==
    /\ "has_placeholders" \notin returned
    /\ placeholder' = has_placeholders(command)
    /\ returned' = returned \cup {"has_placeholders"}
    /\ UNCHANGED <<command, outcome, sanitized, classifier_vars, other_vars, chat_vars>>

NextVerifier == VerifyCommand \/ CheckPlaceholders

SpecVerifier == InitVerifier /\ [][NextVerifier]_vars

\* the commands has_placeholders is about: a placeholder of each kind, in
\* either case, alone and combined, after a verb the verifier accepts and
\* after one it rejects
PlaceholderVerbs == {"kubectl get pods", "kubectl delete pod"}

PlaceholderArguments ==
    {"", " web", " <pod-name>", " <>", " <web", " web>", " > <", " {name}", " {}",
     " [0]", " []", " {web]", " POD-NAME", " -n Namespace-Name", " service-name",
     " my-deployment-name-1", " resource-name", " pod_name", " pod-nam",
     " [0] <pod>", " {ns} [0] <pod>", " pod-name {x}", " resource-name pod-name",
     " <a>b>"}

PlaceholderInputs ==
    {PyStr(v \o a) : v \in PlaceholderVerbs, a \in PlaceholderArguments}
    \cup {PyNone, PyInt("5")}

InitPlaceholders ==
    /\ command \in PlaceholderInputs
    /\ returned = {}
    /\ outcome = NotCalled
    /\ placeholder = NotCalled
    /\ sanitized = <<>>
    /\ ClassifierIdle
    /\ ChatIdle
    /\ OthersIdle

SpecPlaceholders == InitPlaceholders /\ [][NextVerifier]_vars

\* the strings sanitize_command is called on: every string of at most
\* MaxSanitize characters over a letter, two white-space characters and a
\* control character that is not white space
MaxSanitize == 5

SanitizeAlphabet == {"a", " ", "\t", SOH}

RECURSIVE StringsUpTo(_)
StringsUpTo(n) ==
    IF n = 0 THEN {""}
    ELSE StringsUpTo(n - 1)
         \cup {s \o c : s \in StringsUpTo(n - 1), c \in SanitizeAlphabet}

SanitizeInputs == {PyStr(s) : s \in StringsUpTo(MaxSanitize)} \cup {PyNone}

InitSanitizer ==
    /\ command \in SanitizeInputs
    /\ returned = {}
    /\ outcome = NotCalled
    /\ placeholder = NotCalled
    /\ sanitized = <<>>
    /\ ClassifierIdle
    /\ ChatIdle
    /\ OthersIdle

\* clean = CommandVerifier.sanitize_command(command)
SanitizeCommand ==
    /\ sanitized = <<>>
    /\ sanitized' = <<sanitize_command(command)>>
    /\ UNCHANGED <<command, returned, outcome, placeholder, classifier_vars, other_vars,
                   chat_vars>>

\* CommandVerifier.sanitize_command(clean): the result is sanitized again
SanitizeAgain ==
    /\ Len(sanitized) = 1
    /\ ~sanitized[1].raised
    /\ sanitized' = Append(sanitized, sanitize_command(PyStr(sanitized[1].value)))
    /\ UNCHANGED <<command, returned, outcome, placeholder, classifier_vars, other_vars,
                   chat_vars>>

NextSanitizer == SanitizeCommand \/ SanitizeAgain

SpecSanitizer == InitSanitizer /\ [][NextSanitizer]_vars

(***************************************************************************)
(* Properties of the verifier                                              *)
(***************************************************************************)
Verified == "is_safe_command" \in returned
Accepted == Verified /\ ~outcome.raised /\ outcome.value.ok
Rejected == Verified /\ ~outcome.raised /\ ~outcome.value.ok
IsString == command.t = "str"
Tokens == IF IsString THEN split(command.v) ELSE <<>>

\* the matches of a pattern in s, each as <<first position, position after>>
Matches(re, s) ==
    UNION {{<<i, e>> : e \in MatchEnds(re, s, i)} : i \in 1..(Len(s) + 1)}

\* a match is covered by an allow exception when a match of an allowed
\* pattern shares a character with it
Covered(m, s) ==
    \E a \in DOMAIN ALLOWED_PATTERNS :
        \E n \in Matches(ALLOWED_PATTERNS[a].re, s) : n[1] < m[2] /\ m[1] < n[2]

UncoveredDanger(s) ==
    \E p \in DOMAIN UNSAFE_PATTERNS :
        \E m \in Matches(UnsafeFolded[p], lower(s)) : ~Covered(m, s)

\* C2: a command in which a danger pattern matches, the match not covered by
\* an allow exception, is rejected whatever else the command contains.
C2_UncoveredDangerRejected ==
    (Verified /\ IsString /\ UncoveredDanger(strip(command.v))) => ~Accepted

C3_Verbs ==
    {"get", "describe", "logs", "explain", "top", "auth", "api-versions",
     "cluster-info", "version", "config", "view", "help"}

\* C3: a command string whose second token is not one of the twelve read-only
\* verbs (or that has no second token) is not accepted.
C3_VerbAllowList ==
    (Verified /\ IsString /\ (Len(Tokens) < 2 \/ Tokens[2] \notin C3_Verbs))
        => Rejected

C3_Witness ==
    /\ IsString /\ Len(Tokens) >= 2
    /\ Tokens[1] = "kubectl" /\ Tokens[2] = "delete"
    /\ Rejected

HasUnlistedFlag ==
    \E k \in 3..Len(Tokens) :
        startswith(Tokens[k], "-") /\ BeforeEq(Tokens[k], 1) \notin SAFE_FLAGS

\* C4: a command with a token after the verb that starts with '-' and whose
\* name, the part before the first '=', is not in the safe-flag list is rejected.
C4_FlagDefaultDeny == (Verified /\ IsString /\ HasUnlistedFlag) => Rejected

C4_Witness ==
    /\ command = PyStr("kubectl version --made-up-flag")
    /\ Rejected
    /\ outcome.value.reason = "Unsafe flag or option: --made-up-flag"

\* C5: a command whose first token is not exactly kubectl is rejected.
C5_FirstTokenIsKubectl ==
    (Verified /\ IsString /\ (Tokens = <<>> \/ Tokens[1] # "kubectl")) => ~Accepted

\* the command holds a '>' followed, after optional white space, by a word
\* that is not /dev/null: the word the shell would write the output to
RedirectsElsewhere(s) ==
    \E i \in 1..Len(s) :
        /\ Char(s, i) = ">"
        /\ LET b == Scan(s, i + 1, FALSE)
               e == Scan(s, b, TRUE)
           IN  /\ b <= Len(s)
               /\ Char(s, b) \notin {">", "<", "|", "&", ";"}
               /\ SubSeq(s, b, e - 1) # "/dev/null"

\* C6: kubectl get pods > /dev/null is accepted, and a command that redirects
\* output to a target other than /dev/null is rejected.
C6_RedirectionCarveOut ==
    /\ (Verified /\ command = PyStr("kubectl get pods > /dev/null")) => Accepted
    /\ (Verified /\ IsString /\ RedirectsElsewhere(command.v)) => ~Accepted

LacksArgument ==
    /\ Len(Tokens) >= 2
    /\ Tokens[2] \in {"get", "logs", "describe"}
    /\ ~ \E k \in 3..Len(Tokens) : ~startswith(Tokens[k], "-")

\* C7: with the verb get, logs or describe and no non-flag token after it the
\* command is rejected; kubectl get pods is accepted.
C7_RequiredArgument ==
    /\ (Verified /\ IsString /\ LacksArgument) => Rejected
    /\ (Verified /\ command = PyStr("kubectl get pods")) => Accepted

C7_Witness ==
    /\ command = PyStr("kubectl get -A")
    /\ Rejected
    /\ outcome.value.reason = "get command requires a resource type"

\* C8: is_safe_command never raises; it returns a pair with a non-empty reason,
\* False when the analysis faulted, and True only with "Command is safe".
C8_FailsClosed ==
    Verified =>
        /\ ~outcome.raised
        /\ outcome.value.ok \in BOOLEAN
        /\ outcome.value.reason # ""
        /\ is_safe_command_body(command).raised => ~outcome.value.ok
        /\ outcome.value.ok =>
              /\ outcome.value.reason = "Command is safe"
              /\ IsString /\ ~is_safe_command_body(command).raised

C8_Witness ==
    /\ command = PyInt("5")
    /\ is_safe_command_body(command).raised
    /\ Rejected
    /\ outcome.value.reason
          = "Error verifying command: 'int' object has no attribute 'strip'"

\* the tools of the network, process and package patterns of UNSAFE_PATTERNS
\* and the programs of its injection patterns
C28_Tools ==
    {"curl", "wget", "nc", "netcat", "telnet", "ssh", "scp", "rsync", "kill", "ps",
     "pkill", "killall", "apt", "yum", "dnf", "pacman", "brew", "grep", "awk", "sed",
     "xargs", "rm", "mv", "cp", "sh", "bash", "zsh", "fish", "python", "perl",
     "ruby", "php"}

\* the characters of shell operators, redirection, substitution, variables,
\* globbing and filesystem paths
C28_ShellChars == {"|", ";", "&", ">", "<", "$", Grave, "~", "*", "?", "{", "}", "/"}

\* kubectl, a read-only verb, the argument the verb requires and allow-listed
\* flags only; no shell character anywhere and no token that names a tool
PassesEveryCheck ==
    /\ IsString
    /\ Len(Tokens) >= 2
    /\ Tokens[1] = "kubectl"
    /\ Tokens[2] \in READ_ONLY_VERBS
    /\ ~LacksArgument
    /\ ~HasUnlistedFlag
    /\ \A k \in 1..Len(command.v) : Char(command.v, k) \notin C28_ShellChars
    /\ \A k \in DOMAIN Tokens :
          /\ Tokens[k] \notin C28_Tools
          /\ BeforeEq(Tokens[k], 1) \notin C28_Tools

\* C28: a command that passes every check (kubectl, a read-only verb, the
\* required argument, allow-listed flags, no shell operator, redirection,
\* substitution or path, no tool invoked) is accepted with the reason
\* "Command is safe", even when a resource name or a namespace contains the
\* letters of a tool name inside a longer word.
C28_AcceptsWhatPassesEveryCheck ==
    (Verified /\ PassesEveryCheck) =>
        /\ Accepted
        /\ outcome.value.reason = "Command is safe"

\* has_placeholders has returned
Checked == "has_placeholders" \in returned

\* s holds the character open, later the character close, with at least one
\* character between them and none of those characters being close
HasEnclosed(s, open, close) ==
    \E i \in 1..Len(s) : \E j \in (i + 2)..Len(s) :
        /\ Char(s, i) = open
        /\ Char(s, j) = close
        /\ \A k \in (i + 1)..(j - 1) : Char(s, k) # close

\* w occurs in s
Contains(s, w) ==
    \E i \in 1..(Len(s) - Len(w) + 1) : SubSeq(s, i, i + Len(w) - 1) = w

\* the placeholder patterns as has_placeholders names them, in table order
C17_Patterns ==
    <<"<[^>]+>", "\\{[^}]+\\}", "\\[[^\\]]+\\]", "pod-name", "namespace-name",
      "service-name", "deployment-name", "resource-name">>

\* the positions in C17_Patterns of the placeholders that s holds
PlaceholdersIn(s) ==
    {p \in 1..3 : HasEnclosed(s, <<"<", "{", "[">>[p], <<">", "}", "]">>[p])}
    \cup {p \in 4..8 : Contains(lower(s), C17_Patterns[p])}

\* C17: has_placeholders returns true for every command that holds an
\* angle-bracket, brace or bracket token or one of the five literal words in
\* any case, naming the first matching pattern in table order, and false for a
\* string command that holds none; the answer is a function of the command
\* text alone, whatever is_safe_command says of the command.
C17_PlaceholderDetection ==
    (Checked /\ IsString) =>
        LET found == PlaceholdersIn(command.v)
        IN  /\ ~placeholder.raised
            /\ placeholder.value.ok = (found # {})
            /\ found # {} =>
                  placeholder.value.reason =
                      "Command contains placeholder pattern: "
                      \o C17_Patterns[CHOOSE p \in found : \A q \in found : p <= q]
            /\ found = {} => placeholder.value.reason = "No placeholders found"

\* a command that is_safe_command accepts, holding a literal word in upper
\* case, has been found to hold a placeholder
C17_Witness ==
    /\ command = PyStr("kubectl get pods POD-NAME")
    /\ Checked /\ Verified
    /\ Accepted
    /\ placeholder.value.ok
    /\ placeholder.value.reason = "Command contains placeholder pattern: pod-name"

\* C21: has_placeholders does not raise, and when its analysis faults (the
\* command is not a string) its answer reports a placeholder, so that the
\* command is rejected; it never answers (False, ...) for such a command.
C21_PlaceholderCheckFailsClosed ==
    (Checked /\ ~IsString) =>
        /\ ~placeholder.raised
        /\ placeholder.value.ok

\* s holds no control character, no two adjacent white-space characters and
\* no white space at either end
Clean(s) ==
    /\ \A k \in 1..Len(s) : Char(s, k) \notin ControlChars
    /\ \A k \in 1..(Len(s) - 1) :
          ~(Char(s, k) \in Whitespace /\ Char(s, k + 1) \in Whitespace)
    /\ s # "" => (Char(s, 1) \notin Whitespace /\ Char(s, Len(s)) \notin Whitespace)

\* C18: the result of sanitize_command on a string holds no control
\* character, no run of two or more white-space characters and no leading or
\* trailing white space, and sanitizing the result again gives the result.
C18_SanitizeIsCleanAndIdempotent ==
    (IsString /\ sanitized # <<>>) =>
        /\ ~sanitized[1].raised
        /\ Clean(sanitized[1].value)
        /\ Len(sanitized) = 2 => sanitized[2] = sanitized[1]

(***************************************************************************)
(* HybridQuestionClassifier: the keyword tables.  Scores and confidences   *)
(* are in thousandths.                                                     *)
(***************************************************************************)
\* the words of ws separated by \s+
RECURSIVE WordsFrom(_, _)
WordsFrom(ws, k) ==
    IF k = Len(ws) THEN <<ws[k]>>
    ELSE <<ws[k], Plus(Cls("\\s"))>> \o WordsFrom(ws, k + 1)

Words(ws) == Cat(WordsFrom(ws, 1))

AnyOf(ws) == Alt([k \in DOMAIN ws |-> Lit(ws[k])])

Word == Plus(Cls("\\w"))

\* a mutation: a deep-analysis match adds nothing to the score
deep_analysis_patterns_NoImpact ==
    [keywords |->
        << Pat("investigate", Lit("investigate")),
           Pat("analyze", Lit("analyze")),
           Pat("debug", Lit("debug")),
           Pat("troubleshoot", Lit("troubleshoot")),
           Pat("what\\s+wrong\\s+with", Words(<<Lit("what"), Lit("wrong"), Lit("with")>>)),
           Pat("why\\s+is\\s+\\w+\\s+(failing|stuck|crashing)",
               Words(<<Lit("why"), Lit("is"), Word,
                       AnyOf(<<"failing", "stuck", "crashing">>)>>)),
           Pat("root\\s+cause", Words(<<Lit("root"), Lit("cause")>>)),
           Pat("diagnose", Lit("diagnose")),
           Pat("examine\\s+in\\s+detail",
               Words(<<Lit("examine"), Lit("in"), Lit("detail")>>)) >>,
     label |-> "Deep analysis pattern: ",
     score_impact |-> 0,
     confidence_boost |-> 300]

deep_analysis_patterns ==
    [keywords |->
        << Pat("investigate", Lit("investigate")),
           Pat("analyze", Lit("analyze")),
           Pat("debug", Lit("debug")),
           Pat("troubleshoot", Lit("troubleshoot")),
           Pat("what\\s+wrong\\s+with", Words(<<Lit("what"), Lit("wrong"), Lit("with")>>)),
           Pat("why\\s+is\\s+\\w+\\s+(failing|stuck|crashing)",
               Words(<<Lit("why"), Lit("is"), Word,
                       AnyOf(<<"failing", "stuck", "crashing">>)>>)),
           Pat("root\\s+cause", Words(<<Lit("root"), Lit("cause")>>)),
           Pat("diagnose", Lit("diagnose")),
           Pat("examine\\s+in\\s+detail",
               Words(<<Lit("examine"), Lit("in"), Lit("detail")>>)) >>,
     label |-> "Deep analysis pattern: ",
     score_impact |-> 600,
     confidence_boost |-> 300]

moderate_investigation_patterns ==
    [keywords |->
        << Pat("check\\s+status", Words(<<Lit("check"), Lit("status")>>)),
           Pat("verify", Lit("verify")),
           Pat("validate", Lit("validate")),
           Pat("health\\s+check", Words(<<Lit("health"), Lit("check")>>)),
           Pat("is\\s+\\w+\\s+(running|working|ok)",
               Words(<<Lit("is"), Word, AnyOf(<<"running", "working", "ok">>)>>)),
           Pat("problems?\\s+with",
               Words(<<Cat(<<Lit("problem"), Opt(Lit("s"))>>), Lit("with")>>)),
           Pat("issues?\\s+with",
               Words(<<Cat(<<Lit("issue"), Opt(Lit("s"))>>), Lit("with")>>)) >>,
     label |-> "Moderate investigation pattern: ",
     score_impact |-> 300,
     confidence_boost |-> 200]

simple_listing_patterns ==
    [keywords |->
        << Pat("show\\s+me", Words(<<Lit("show"), Lit("me")>>)),
           Pat("list\\s+\\w+", Words(<<Lit("list"), Word>>)),
           Pat("get\\s+\\w+", Words(<<Lit("get"), Word>>)),
           Pat("what\\s+(pods|deployments|services|namespaces)",
               Words(<<Lit("what"),
                       AnyOf(<<"pods", "deployments", "services", "namespaces">>)>>)),
           Pat("how\\s+many", Words(<<Lit("how"), Lit("many")>>)),
           Pat("display\\s+\\w+", Words(<<Lit("display"), Word>>)) >>,
     label |-> "Simple listing pattern: ",
     score_impact |-> -200,
     confidence_boost |-> 200]

negative_patterns ==
    [keywords |->
        << Pat("quick\\s+check", Words(<<Lit("quick"), Lit("check")>>)),
           Pat("brief\\s+overview", Words(<<Lit("brief"), Lit("overview")>>)),
           Pat("simple\\s+list", Words(<<Lit("simple"), Lit("list")>>)),
           Pat("just\\s+show", Words(<<Lit("just"), Lit("show")>>)),
           Pat("only\\s+list", Words(<<Lit("only"), Lit("list")>>)) >>,
     label |-> "Negative pattern: ",
     score_impact |-> -300,
     confidence_boost |-> 100]

\* self.resource_complexity, in insertion order; text is the adjustment as the
\* reasoning prints it
resource_complexity ==
    << [resource |-> "pod", adjustment |-> 100, text |-> "0.1"],
       [resource |-> "deployment", adjustment |-> 150, text |-> "0.15"],
       [resource |-> "service", adjustment |-> 100, text |-> "0.1"],
       [resource |-> "namespace", adjustment |-> 50, text |-> "0.05"],
       [resource |-> "cluster", adjustment |-> 200, text |-> "0.2"],
       [resource |-> "node", adjustment |-> 150, text |-> "0.15"],
       [resource |-> "configmap", adjustment |-> 50, text |-> "0.05"],
       [resource |-> "secret", adjustment |-> 50, text |-> "0.05"] >>

context_rules ==
    [investigation_continuation |->
        [patterns |-> <<Lit("investigate"), Lit("analyze"), Lit("debug")>>,
         window |-> 3, score_boost |-> 300, confidence_boost |-> 200],
     simple_browsing |->
        [patterns |-> <<Lit("show"), Lit("list"), Lit("get")>>,
         window |-> 2, score_reduction |-> 200, confidence_boost |-> 100],
     problem_followup |->
        [patterns |-> <<Lit("error"), Lit("fail"), Lit("wrong"), Lit("issue")>>,
         window |-> 4, score_boost |-> 400, confidence_boost |-> 300]]

\* max(lo, min(hi, x))
Clamp(lo, hi, x) == IF x > hi THEN (IF hi < lo THEN lo ELSE hi)
                    ELSE IF x < lo THEN lo ELSE x

Max(a, b) == IF a >= b THEN a ELSE b

\* the sum of f[k] over the k of a finite set
RECURSIVE SumOver(_, _)
SumOver(f, S) ==
    IF S = {} THEN 0
    ELSE LET k == CHOOSE x \in S : TRUE IN f[k] + SumOver(f, S \ {k})

ClassificationResult(qt, st, score, conf, why, n, follow, style, method) ==
    [question_type |-> qt, strategy_type |-> st, complexity_score |-> score,
     confidence |-> conf, reasoning |-> why, suggested_max_commands |-> n,
     follow_up_allowed |-> follow, response_style |-> style,
     classification_method |-> method]

(***************************************************************************)
(* HybridQuestionClassifier._classify_by_keywords                          *)
(***************************************************************************)
\* the patterns of a group that match, in table order
Matching(group, text) ==
    SelectSeq([k \in DOMAIN group.keywords |-> k],
              LAMBDA k : search(group.keywords[k].re, text))

\* one reasoning part for each pattern of hit
GroupReasons(group, hit) ==
    [j \in DOMAIN hit |-> group.label \o group.keywords[hit[j]].src]

\* `resource in message_lower`
MentionedResources(text) ==
    SelectSeq([k \in DOMAIN resource_complexity |-> k],
              LAMBDA k : search(Lit(resource_complexity[k].resource), text))

ResourceReasons(mentioned) ==
    [j \in DOMAIN mentioned |->
        "Resource-specific: " \o resource_complexity[mentioned[j]].resource
        \o " (+" \o resource_complexity[mentioned[j]].text \o ")"]

KeywordGroups ==
    <<deep_analysis_patterns, moderate_investigation_patterns,
      simple_listing_patterns, negative_patterns>>

\* base_score before the clamp; hits[g] are the matching patterns of group g
BaseScore(hits, mentioned) ==
    500 + SumOver([g \in DOMAIN KeywordGroups |->
                      Len(hits[g]) * KeywordGroups[g].score_impact],
                  DOMAIN KeywordGroups)
        + SumOver([j \in DOMAIN mentioned |->
                      resource_complexity[mentioned[j]].adjustment],
                  DOMAIN mentioned)

\* confidence before the clamp
BaseConfidence(hits) ==
    500 + SumOver([g \in DOMAIN KeywordGroups |->
                      Len(hits[g]) * KeywordGroups[g].confidence_boost],
                  DOMAIN KeywordGroups)

\* if base_score >= 0.7 ... elif base_score >= 0.4 ... else
ProvisionalType(score) ==
    IF score >= 700 THEN "DEEP_ANALYSIS"
    ELSE IF score >= 400 THEN "MODERATE_INVESTIGATION"
    ELSE "SIMPLE_LISTING"

_classify_by_keywords(message) ==
    IF message.t # "str" THEN NoAttribute(message, "lower")
    ELSE
    LET message_lower == lower(message.v)
        hits == [g \in DOMAIN KeywordGroups |->
                    Matching(KeywordGroups[g], message_lower)]
        mentioned == MentionedResources(message_lower)
        reasoning_parts ==
            GroupReasons(deep_analysis_patterns, hits[1])
            \o GroupReasons(moderate_investigation_patterns, hits[2])
            \o GroupReasons(simple_listing_patterns, hits[3])
            \o GroupReasons(negative_patterns, hits[4])
            \o ResourceReasons(mentioned)
        base_score == Clamp(0, 1000, BaseScore(hits, mentioned))
        confidence == Clamp(100, 1000, BaseConfidence(hits))
    IN  Returned(ClassificationResult(
            ProvisionalType(base_score), "SIMPLE_DISCOVERY", base_score,
            confidence,
            IF reasoning_parts = <<>> THEN "No specific patterns detected"
            ELSE join("; ", reasoning_parts),
            1, FALSE, "concise", "keyword"))

(***************************************************************************)
(* HybridQuestionClassifier._apply_context_awareness                       *)
(* A history entry is a dict [role, message]; message is a Python value.   *)
(***************************************************************************)
\* seq[-n:]
LastN(seq, n) ==
    IF Len(seq) <= n THEN seq ELSE SubSeq(seq, Len(seq) - n + 1, Len(seq))

_matches_context_pattern(messages, rule) ==
    IF Len(messages) < rule.window THEN Returned(FALSE)
    ELSE
    LET recent_window == LastN(messages, rule.window)
        users == {k \in DOMAIN recent_window : recent_window[k].role = "user"}
        bad == {k \in users : recent_window[k].message.t # "str"}
        pattern_count ==
            Cardinality({k \in users :
                \E j \in DOMAIN rule.patterns :
                    search(rule.patterns[j], lower(recent_window[k].message.v))})
    IN  IF bad # {}
        THEN NoAttribute(recent_window[CHOOSE k \in bad : \A m \in bad : k <= m].message,
                         "lower")
        ELSE Returned(pattern_count >= rule.window \div 2)

\* the result after one rule has fired: the change, the note, the clamp
Adjusted(result, score_change, confidence_boost, note) ==
    [result EXCEPT
        !.complexity_score = Clamp(0, 1000, @ + score_change),
        !.confidence = Clamp(100, 1000, @ + confidence_boost),
        !.reasoning = @ \o "; Context: " \o note]

\* the chain with problem follow-up tested first
MatchedRule_FollowupFirst(conversation_history) ==
    IF conversation_history = <<>> THEN Returned("none")
    ELSE
    LET recent_messages == LastN(conversation_history, 5)
        investigation ==
            _matches_context_pattern(recent_messages,
                                     context_rules.investigation_continuation)
        browsing ==
            _matches_context_pattern(recent_messages, context_rules.simple_browsing)
        followup ==
            _matches_context_pattern(recent_messages, context_rules.problem_followup)
    IN  IF followup.raised THEN followup
        ELSE IF followup.value THEN Returned("problem_followup")
        ELSE IF investigation.raised THEN investigation
        ELSE IF investigation.value THEN Returned("investigation_continuation")
        ELSE IF browsing.raised THEN browsing
        ELSE IF browsing.value THEN Returned("simple_browsing")
        ELSE Returned("none")

\* the if/elif chain over the rules: the name of the first rule that matches
\* the recent messages, "none" when none does, or the exception a test raised
MatchedRule(conversation_history) ==
    IF conversation_history = <<>> THEN Returned("none")
    ELSE
    LET recent_messages == LastN(conversation_history, 5)
        investigation ==
            _matches_context_pattern(recent_messages,
                                     context_rules.investigation_continuation)
        browsing ==
            _matches_context_pattern(recent_messages, context_rules.simple_browsing)
        followup ==
            _matches_context_pattern(recent_messages, context_rules.problem_followup)
    IN  IF investigation.raised THEN investigation
        ELSE IF investigation.value THEN Returned("investigation_continuation")
        ELSE IF browsing.raised THEN browsing
        ELSE IF browsing.value THEN Returned("simple_browsing")
        ELSE IF followup.raised THEN followup
        ELSE IF followup.value THEN Returned("problem_followup")
        ELSE Returned("none")

\* the body of _apply_context_awareness once the chain has been decided
ApplyRule(result, conversation_history, matched) ==
    IF matched.raised THEN matched
    ELSE IF conversation_history = <<>> THEN Returned(result)
    ELSE CASE matched.value = "investigation_continuation" ->
                Returned(Adjusted(result,
                    context_rules.investigation_continuation.score_boost,
                    context_rules.investigation_continuation.confidence_boost,
                    "Investigation continuation detected"))
           [] matched.value = "simple_browsing" ->
                Returned(Adjusted(result,
                    0 - context_rules.simple_browsing.score_reduction,
                    context_rules.simple_browsing.confidence_boost,
                    "Simple browsing pattern detected"))
           [] matched.value = "problem_followup" ->
                Returned(Adjusted(result,
                    context_rules.problem_followup.score_boost,
                    context_rules.problem_followup.confidence_boost,
                    "Problem follow-up detected"))
           [] matched.value = "none" ->
                Returned([result EXCEPT
                    !.complexity_score = Clamp(0, 1000, @),
                    !.confidence = Clamp(100, 1000, @)])

_apply_context_awareness(result, conversation_history) ==
    ApplyRule(result, conversation_history, MatchedRule(conversation_history))

(***************************************************************************)
(* HybridQuestionClassifier._get_fallback_classification                   *)
(***************************************************************************)
FallbackWords == <<"wrong", "error", "fail", "investigate">>

_get_fallback_classification(message) ==
    IF message.t # "str" THEN NoAttribute(message, "lower")
    ELSE
    LET message_lower == lower(message.v)
    IN  IF \E k \in DOMAIN FallbackWords : search(Lit(FallbackWords[k]), message_lower)
        THEN Returned(ClassificationResult(
                 "MODERATE_INVESTIGATION", "MODERATE_INVESTIGATION", 600, 300,
                 "Fallback classification due to error", 2, TRUE, "detailed",
                 "fallback"))
        ELSE Returned(ClassificationResult(
                 "SIMPLE_LISTING", "SIMPLE_DISCOVERY", 300, 300,
                 "Fallback classification due to error", 1, FALSE, "concise",
                 "fallback"))

(***************************************************************************)
(* HybridQuestionClassifier._classify_with_ai and the reply parser.        *)
(* A reply of the collaborator is one of                                   *)
(*   [kind |-> "raise"]   the call raised (timeout, connection error)      *)
(*   [kind |-> "text"]    text in which no JSON object can be read         *)
(*   [kind |-> "json", data |-> d]   text holding the JSON object d        *)
(* A JSON number holds thousandths under complexity_score and confidence   *)
(* and a whole number under suggested_max_commands.                        *)
(***************************************************************************)
JsonNumber(n) == [t |-> "number", v |-> n]
JsonString(s) == [t |-> "string", v |-> s]
JsonBool(b) == [t |-> "bool", v |-> b]
JsonNull == [t |-> "null"]

\* dict.get(key, default)
Get(d, key, default) == IF key \in DOMAIN d THEN d[key] ELSE default

\* float(x) and int(x) succeed on numbers and booleans, and raise on null and
\* on a string that is not a numeral
Converts(x) == x.t \in {"number", "bool"}

\* float(x) under complexity_score and confidence
float(x) == IF x.t = "bool" THEN (IF x.v THEN 1000 ELSE 0) ELSE x.v

\* int(x) under suggested_max_commands
int(x) == IF x.t = "bool" THEN (IF x.v THEN 1 ELSE 0) ELSE x.v

\* bool(x)
bool(x) ==
    CASE x.t = "bool" -> x.v
      [] x.t = "number" -> x.v # 0
      [] x.t = "string" -> x.v # ""
      [] x.t = "null" -> FALSE

question_type_map ==
    [simple_listing |-> "SIMPLE_LISTING",
     moderate_investigation |-> "MODERATE_INVESTIGATION",
     deep_analysis |-> "DEEP_ANALYSIS"]

strategy_type_map ==
    [simple_listing |-> "SIMPLE_DISCOVERY",
     moderate_investigation |-> "MODERATE_INVESTIGATION",
     deep_analysis |-> "DEEP_ANALYSIS"]

\* map.get(ai_data.get('question_type'), default)
Mapped(map, x, default) ==
    IF x.t = "string" /\ x.v \in DOMAIN map THEN map[x.v] ELSE default

_parse_ai_classification_response(ai_response) ==
    LET failed == _get_fallback_classification(PyStr("AI parsing failed"))
    IN  IF ai_response.kind # "json" THEN failed
        ELSE
        LET ai_data == ai_response.data
            complexity_score == Get(ai_data, "complexity_score", JsonNumber(500))
            confidence == Get(ai_data, "confidence", JsonNumber(500))
            suggested_max_commands ==
                Get(ai_data, "suggested_max_commands", JsonNumber(1))
        IN  IF ~(Converts(complexity_score) /\ Converts(confidence)
                 /\ Converts(suggested_max_commands))
            THEN failed
            ELSE Returned(ClassificationResult(
                     Mapped(question_type_map,
                            Get(ai_data, "question_type", JsonNull), "UNKNOWN"),
                     Mapped(strategy_type_map,
                            Get(ai_data, "question_type", JsonNull),
                            "SIMPLE_DISCOVERY"),
                     float(complexity_score),
                     float(confidence),
                     Get(ai_data, "reasoning", JsonString("AI classification")).v,
                     int(suggested_max_commands),
                     bool(Get(ai_data, "follow_up_allowed", JsonBool(FALSE))),
                     Get(ai_data, "response_style", JsonString("concise")).v,
                     "ai"))

\* _build_ai_classification_prompt raises when it slices a message that is
\* not a string: msg.get('message', '')[:100]
PromptBuilds(conversation_history) ==
    \A k \in DOMAIN LastN(conversation_history, 3) :
        LastN(conversation_history, 3)[k].message.t = "str"

_classify_with_ai(message, conversation_history, ai_response) ==
    IF ~PromptBuilds(conversation_history) \/ ai_response.kind = "raise"
    THEN _get_fallback_classification(message)
    ELSE _parse_ai_classification_response(ai_response)

(***************************************************************************)
(* HybridQuestionClassifier._combine_classification_results                *)
(***************************************************************************)
keyword_weight == 400

ai_weight == 600

\* a mutation: the two sides weigh the same
Weighted_Halves(keyword_value, ai_value) ==
    (keyword_value * 500 + ai_value * 500) \div 1000

Weighted(keyword_value, ai_value) ==
    (keyword_value * keyword_weight + ai_value * ai_weight) \div 1000

_combine_classification_results(keyword_result, ai_result) ==
    LET ai_wins == ai_result.confidence > keyword_result.confidence
    IN  ClassificationResult(
            IF ai_wins THEN ai_result.question_type ELSE keyword_result.question_type,
            IF ai_wins THEN ai_result.strategy_type ELSE keyword_result.strategy_type,
            Weighted(keyword_result.complexity_score, ai_result.complexity_score),
            Weighted(keyword_result.confidence, ai_result.confidence),
            "Keyword: " \o keyword_result.reasoning \o "; AI: " \o ai_result.reasoning,
            Max(keyword_result.suggested_max_commands,
                ai_result.suggested_max_commands),
            keyword_result.follow_up_allowed \/ ai_result.follow_up_allowed,
            IF ai_wins THEN ai_result.response_style
            ELSE keyword_result.response_style,
            "hybrid")

(***************************************************************************)
(* HybridQuestionClassifier._determine_strategy_parameters                 *)
(***************************************************************************)
\* a mutation: the question type is left as the earlier steps set it
_determine_strategy_parameters_KeepsType(result) ==
    IF result.complexity_score >= 700
    THEN [result EXCEPT
             !.strategy_type = "DEEP_ANALYSIS",
             !.suggested_max_commands = Max(3, @),
             !.follow_up_allowed = TRUE,
             !.response_style = "comprehensive"]
    ELSE IF result.complexity_score >= 400
    THEN [result EXCEPT
             !.strategy_type = "MODERATE_INVESTIGATION",
             !.suggested_max_commands = Max(2, @),
             !.follow_up_allowed = TRUE,
             !.response_style = "detailed"]
    ELSE [result EXCEPT
             !.strategy_type = "SIMPLE_DISCOVERY",
             !.suggested_max_commands = 1,
             !.follow_up_allowed = FALSE,
             !.response_style = "concise"]

\* a mutation: the lowest tier leaves follow_up_allowed as the merge set it
_determine_strategy_parameters_KeepsFollowUp(result) ==
    IF result.complexity_score >= 700
    THEN [result EXCEPT
             !.question_type = "DEEP_ANALYSIS",
             !.strategy_type = "DEEP_ANALYSIS",
             !.suggested_max_commands = Max(3, @),
             !.follow_up_allowed = TRUE,
             !.response_style = "comprehensive"]
    ELSE IF result.complexity_score >= 400
    THEN [result EXCEPT
             !.question_type = "MODERATE_INVESTIGATION",
             !.strategy_type = "MODERATE_INVESTIGATION",
             !.suggested_max_commands = Max(2, @),
             !.follow_up_allowed = TRUE,
             !.response_style = "detailed"]
    ELSE [result EXCEPT
             !.question_type = "SIMPLE_LISTING",
             !.strategy_type = "SIMPLE_DISCOVERY",
             !.suggested_max_commands = 1,
             !.response_style = "concise"]

_determine_strategy_parameters(result) ==
    IF result.complexity_score >= 700
    THEN [result EXCEPT
             !.question_type = "DEEP_ANALYSIS",
             !.strategy_type = "DEEP_ANALYSIS",
             !.suggested_max_commands = Max(3, @),
             !.follow_up_allowed = TRUE,
             !.response_style = "comprehensive"]
    ELSE IF result.complexity_score >= 400
    THEN [result EXCEPT
             !.question_type = "MODERATE_INVESTIGATION",
             !.strategy_type = "MODERATE_INVESTIGATION",
             !.suggested_max_commands = Max(2, @),
             !.follow_up_allowed = TRUE,
             !.response_style = "detailed"]
    ELSE [result EXCEPT
             !.question_type = "SIMPLE_LISTING",
             !.strategy_type = "SIMPLE_DISCOVERY",
             !.suggested_max_commands = 1,
             !.follow_up_allowed = FALSE,
             !.response_style = "concise"]

(***************************************************************************)
(* HybridQuestionClassifier.classify_question, step by step                *)
(***************************************************************************)
MaxHistory == 4

Entry(role, text) == [role |-> role, message |-> text]

HistoryEntries ==
    { Entry("user", PyStr("investigate the crash")),
      Entry("user", PyStr("show pods")),
      Entry("user", PyStr("I see an error")),
      Entry("assistant", PyStr("error: the pod failed")) }

\* a user entry whose message is None
NullEntry == Entry("user", PyNone)

MalformedHistories ==
    { <<NullEntry>>,
      <<Entry("user", PyStr("show pods")), NullEntry>>,
      <<NullEntry, Entry("assistant", PyStr("error: the pod failed"))>> }

HistoryInputs ==
    UNION {[1..n -> HistoryEntries] : n \in 0..MaxHistory} \cup MalformedHistories

MessageInputs ==
    { PyStr("Show me pods"),
      PyStr("show me pods"),
      PyStr("investigate why my deployment is crashing"),
      PyStr("is nginx running"),
      PyStr("hello"),
      PyStr("just show the error"),
      PyStr("quick check: list pods, how many"),
      PyNone }

AIReplies ==
    { [kind |-> "raise"],
      [kind |-> "text"],
      [kind |-> "json", data |-> [note |-> JsonString("n/a")]],
      [kind |-> "json", data |->
          [complexity_score |-> JsonNumber(900),
           question_type |-> JsonString("deep_analysis"),
           confidence |-> JsonNumber(900),
           reasoning |-> JsonString("needs analysis"),
           suggested_max_commands |-> JsonNumber(4),
           follow_up_allowed |-> JsonBool(TRUE),
           response_style |-> JsonString("comprehensive")]],
      [kind |-> "json", data |->
          [complexity_score |-> JsonNumber(200),
           question_type |-> JsonString("simple_listing"),
           confidence |-> JsonNumber(800),
           reasoning |-> JsonString("a listing"),
           suggested_max_commands |-> JsonNumber(1),
           follow_up_allowed |-> JsonBool(FALSE),
           response_style |-> JsonString("concise")]],
      [kind |-> "json", data |->
          [complexity_score |-> JsonNumber(2000),
           confidence |-> JsonNumber(2000),
           suggested_max_commands |-> JsonNumber(10)]],
      [kind |-> "json", data |->
          [complexity_score |-> JsonNumber(-1000),
           confidence |-> JsonNumber(-1000),
           follow_up_allowed |-> JsonBool(TRUE)]],
      [kind |-> "json", data |->
          [complexity_score |-> JsonString("high")]],
      [kind |-> "json", data |->
          [complexity_score |-> JsonNumber(500),
           question_type |-> JsonString("banana"),
           confidence |-> JsonNumber(900)]] }

VerifierIdle ==
    /\ command = PyNone
    /\ returned = {}
    /\ outcome = NotCalled
    /\ placeholder = NotCalled
    /\ sanitized = <<>>

InitClassifier ==
    /\ question \in MessageInputs
    /\ history \in HistoryInputs
    /\ ai_client \in BOOLEAN
    /\ stage = "keyword_score"
    /\ final_result = NotCalled
    /\ ai_reply = NoReply
    /\ ai_classification = NotCalled
    /\ ai_calls = 0
    /\ classification = NotCalled
    /\ VerifierIdle
    /\ ChatIdle
    /\ OthersIdle

\* the value paired with key in a table of <<key, value>> pairs
Lookup(table, key) == (CHOOSE pair \in table : pair[1] = key)[2]

\* _classify_by_keywords on each message of MessageInputs, evaluated once
KeywordResults == {<<m, _classify_by_keywords(m)>> : m \in MessageInputs}

\* the rule chain of _apply_context_awareness on each history of HistoryInputs,
\* evaluated once
MatchedRules == {<<h, MatchedRule(h)>> : h \in HistoryInputs}

\* Step 1: keyword_result = self._classify_by_keywords(message)
ClassifyByKeywords ==
    /\ stage = "keyword_score"
    /\ final_result' = Lookup(KeywordResults, question)
    /\ stage' = IF final_result'.raised THEN "except" ELSE "context_adjust"
    /\ UNCHANGED <<question, history, ai_client, ai_reply,
                   ai_classification, ai_calls, classification, verifier_vars, other_vars, chat_vars>>

\* Step 2: self._apply_context_awareness(...), then the test of Step 3
ApplyContextAwareness ==
    /\ stage = "context_adjust"
    /\ LET adjusted == ApplyRule(final_result.value, history,
                              Lookup(MatchedRules, history))
       IN  IF adjusted.raised
           THEN /\ stage' = "except"
                /\ final_result' = adjusted
           ELSE /\ final_result' = adjusted
                /\ stage' = IF adjusted.value.confidence < 700 /\ ai_client
                            THEN "ai_fallback" ELSE "skip"
    /\ UNCHANGED <<question, history, ai_client, ai_reply,
                   ai_classification, ai_calls, classification, verifier_vars, other_vars, chat_vars>>

\* Step 3, first branch: ai_result = self._classify_with_ai(...)
ClassifyWithAI ==
    /\ stage = "ai_fallback"
    /\ IF PromptBuilds(history)
       THEN /\ ai_reply' \in AIReplies
            /\ ai_calls' = ai_calls + 1
       ELSE UNCHANGED <<ai_reply, ai_calls>>
    /\ ai_classification' = _classify_with_ai(question, history, ai_reply')
    /\ stage' = IF ai_classification'.raised THEN "except" ELSE "merge"
    /\ UNCHANGED <<question, history, ai_client, final_result,
                   classification, verifier_vars, other_vars, chat_vars>>

\* Step 3, first branch: final_result = self._combine_classification_results(...)
CombineResults ==
    /\ stage = "merge"
    /\ final_result' =
           Returned(_combine_classification_results(final_result.value,
                                                    ai_classification.value))
    /\ stage' = "resolve_strategy"
    /\ UNCHANGED <<question, history, ai_client, ai_reply,
                   ai_classification, ai_calls, classification, verifier_vars, other_vars, chat_vars>>

\* Step 3, else branch: final_result.classification_method = "keyword_context"
SkipAI ==
    /\ stage = "skip"
    /\ final_result' = Returned([final_result.value EXCEPT
                                    !.classification_method = "keyword_context"])
    /\ stage' = "resolve_strategy"
    /\ UNCHANGED <<question, history, ai_client, ai_reply,
                   ai_classification, ai_calls, classification, verifier_vars, other_vars, chat_vars>>

\* Step 4: return self._determine_strategy_parameters(final_result)
DetermineStrategy ==
    /\ stage = "resolve_strategy"
    /\ classification' = Returned(_determine_strategy_parameters(final_result.value))
    /\ stage' = "done"
    /\ UNCHANGED <<question, history, ai_client, final_result, ai_reply,
                   ai_classification, ai_calls, verifier_vars, other_vars, chat_vars>>

\* except Exception: return self._get_fallback_classification(question)
Fallback ==
    /\ stage = "except"
    /\ classification' = _get_fallback_classification(question)
    /\ stage' = "done"
    /\ UNCHANGED <<question, history, ai_client, final_result, ai_reply,
                   ai_classification, ai_calls, verifier_vars, other_vars, chat_vars>>

NextClassifier ==
    \/ ClassifyByKeywords
    \/ ApplyContextAwareness
    \/ ClassifyWithAI
    \/ CombineResults
    \/ SkipAI
    \/ DetermineStrategy
    \/ Fallback

SpecClassifier == InitClassifier /\ [][NextClassifier]_vars

(***************************************************************************)
(* classify_question as one call.  ai_response is what the collaborator    *)
(* does if it is consulted.                                                *)
(***************************************************************************)
classify_question(message, conversation_history, has_ai_client, ai_response) ==
    LET keyword_result == _classify_by_keywords(message)
        context_adjusted_result ==
            _apply_context_awareness(keyword_result.value, conversation_history)
        ai_result == _classify_with_ai(message, conversation_history, ai_response)
    IN  IF keyword_result.raised \/ context_adjusted_result.raised
        THEN _get_fallback_classification(message)
        ELSE IF context_adjusted_result.value.confidence < 700 /\ has_ai_client
        THEN IF ai_result.raised
             THEN _get_fallback_classification(message)
             ELSE Returned(_determine_strategy_parameters(
                      _combine_classification_results(
                          context_adjusted_result.value, ai_result.value)))
        ELSE Returned(_determine_strategy_parameters(
                 [context_adjusted_result.value EXCEPT
                     !.classification_method = "keyword_context"]))

(***************************************************************************)
(* classify_question called twice on one message and one history, with an   *)
(* AI collaborator whose two replies are JSON objects that carry the same   *)
(* complexity_score, confidence, reasoning and suggested_max_commands.      *)
(***************************************************************************)
\* a reply of the collaborator that _parse_ai_classification_response parses
ParsableReply(score, conf, n, question_type, follow_up, style) ==
    [kind |-> "json", data |->
        [complexity_score |-> JsonNumber(score),
         question_type |-> JsonString(question_type),
         confidence |-> JsonNumber(conf),
         reasoning |-> JsonString("as requested"),
         suggested_max_commands |-> JsonNumber(n),
         follow_up_allowed |-> JsonBool(follow_up),
         response_style |-> JsonString(style)]]

\* complexity_score, confidence and suggested_max_commands of a reply
NumericInputs == {<<900, 900, 4>>, <<200, 800, 1>>, <<500, 600, 2>>}

QuestionTypeInputs == {"simple_listing", "deep_analysis", "banana"}

StyleInputs == {"concise", "comprehensive"}

TwinInputs ==
    {<<ParsableReply(x[1], x[2], x[3], qt1, f1, s1),
       ParsableReply(x[1], x[2], x[3], qt2, f2, s2)>> :
        x \in NumericInputs, qt1 \in QuestionTypeInputs, qt2 \in QuestionTypeInputs,
        f1 \in BOOLEAN, f2 \in BOOLEAN, s1 \in StyleInputs, s2 \in StyleInputs}

TwinMessages ==
    {PyStr("hello"), PyStr("is nginx running"), PyStr("just show the error")}

TwinHistories ==
    {<<>>, <<Entry("user", PyStr("show pods")), Entry("user", PyStr("show pods"))>>}

InitTwins ==
    /\ question \in TwinMessages
    /\ history \in TwinHistories
    /\ ai_client = TRUE
    /\ stage = "idle"
    /\ final_result = NotCalled
    /\ ai_reply = NoReply
    /\ ai_classification = NotCalled
    /\ ai_calls = 0
    /\ classification = NotCalled
    /\ twin_replies \in TwinInputs
    /\ twin_results = <<>>
    /\ VerifierIdle
    /\ ChatIdle
    /\ ConcurrentIdle
    /\ AdminIdle
    /\ SessionsIdle

\* classifier.classify_question(message, conversation_history, ai_client),
\* once for each reply
ClassifyTwins ==
    /\ twin_results = <<>>
    /\ twin_results' =
           <<classify_question(question, history, ai_client, twin_replies[1]),
             classify_question(question, history, ai_client, twin_replies[2])>>
    /\ UNCHANGED <<twin_replies, verifier_vars, classifier_vars, chat_vars,
                   concurrent_vars, admin_vars, sessions_vars>>

NextTwins == ClassifyTwins

SpecTwins == InitTwins /\ [][NextTwins]_vars

(***************************************************************************)
(* Concurrent calls of CommandVerifier.is_safe_command and of              *)
(* classify_question on one HybridQuestionClassifier, every classifier     *)
(* call being handed the same conversation_history list.  A call's         *)
(* arguments, position and local names are its own; the list and the       *)
(* ClassificationResult objects live on the heap.  The tables of the two   *)
(* classes are assigned at class definition and in __init__ and by no      *)
(* method, so they stay the definitions above.                             *)
(***************************************************************************)
MaxThreads == 2

Threads == 1..MaxThreads

\* the address of the object that keyword_result names in call t:
\* _classify_by_keywords returns a new ClassificationResult on every call
ResultCell_Shared(t) == 1

ResultCell(t) == t

ConcurrentCommands == {PyStr("kubectl get pods"), PyStr("kubectl delete pod x")}

ConcurrentMessages ==
    {PyStr("hello"), PyStr("investigate why my deployment is crashing")}

ConcurrentHistories ==
    { <<>>,
      <<Entry("user", PyStr("investigate the crash")),
        Entry("user", PyStr("I see an error"))>>,
      <<Entry("user", PyStr("show pods")), NullEntry>> }

ConcurrentReplies ==
    {r \in AIReplies : r.kind = "raise" \/ (r.kind = "json" /\ "reasoning" \in DOMAIN r.data)}

Invocation(method, arg, client, at) ==
    [method |-> method, arg |-> arg, ai_client |-> client, at |-> at,
     ai_reply |-> NoReply, ai_result |-> NotCalled, ret |-> NotCalled]

InvocationInputs ==
    {Invocation("is_safe_command", c, FALSE, "call") : c \in ConcurrentCommands}
    \cup {Invocation("classify_question", m, client, "keyword_score") :
              m \in ConcurrentMessages, client \in BOOLEAN}

InitConcurrent ==
    /\ invocations \in [Threads -> InvocationInputs]
    /\ \E h \in ConcurrentHistories :
          heap = [history |-> h, objects |-> [a \in Threads |-> <<>>]]
    /\ VerifierIdle
    /\ ClassifierIdle
    /\ ChatIdle
    /\ AdminIdle
    /\ TwinsIdle
    /\ SessionsIdle

\* what call t is doing
Self(t) == invocations[t]

\* the object keyword_result / final_result names in call t
Result(t) == heap.objects[ResultCell(t)]

\* call t moves on, its locals being updated
Proceed(t, next) == invocations' = [invocations EXCEPT ![t] = next]

\* call t assigns to the fields of the object its result names
Store(t, value) == heap' = [heap EXCEPT !.objects[ResultCell(t)] = value]

Idle ==
    UNCHANGED <<verifier_vars, classifier_vars, chat_vars, admin_vars, twin_vars,
                sessions_vars>>

\* CommandVerifier.is_safe_command(command): locals and class tables only
ConcurrentVerify(t) ==
    /\ Self(t).method = "is_safe_command"
    /\ Self(t).at = "call"
    /\ Proceed(t, [Self(t) EXCEPT !.ret = is_safe_command(Self(t).arg),
                                  !.at = "done"])
    /\ UNCHANGED heap
    /\ Idle

\* Step 1: keyword_result = self._classify_by_keywords(message)
ConcurrentKeywords(t) ==
    /\ Self(t).at = "keyword_score"
    /\ LET r == Lookup(KeywordResults, Self(t).arg)
       IN  IF r.raised
           THEN /\ Proceed(t, [Self(t) EXCEPT !.at = "except"])
                /\ UNCHANGED heap
           ELSE /\ Proceed(t, [Self(t) EXCEPT !.at = "context_adjust"])
                /\ Store(t, r.value)
    /\ Idle

\* Step 2: self._apply_context_awareness(...) updates the object in place;
\* then the test of Step 3
ConcurrentContext(t) ==
    /\ Self(t).at = "context_adjust"
    /\ LET adjusted == ApplyRule(Result(t), heap.history,
                                 Lookup(MatchedRules, heap.history))
       IN  IF adjusted.raised
           THEN /\ Proceed(t, [Self(t) EXCEPT !.at = "except"])
                /\ UNCHANGED heap
           ELSE /\ Proceed(t, [Self(t) EXCEPT !.at =
                       IF adjusted.value.confidence < 700 /\ Self(t).ai_client
                       THEN "ai_fallback" ELSE "skip"])
                /\ Store(t, adjusted.value)
    /\ Idle

\* Step 3, first branch: ai_result = self._classify_with_ai(...)
ConcurrentAI(t) ==
    /\ Self(t).at = "ai_fallback"
    /\ \E reply \in IF PromptBuilds(heap.history) THEN ConcurrentReplies
                    ELSE {NoReply} :
          LET ai_result == _classify_with_ai(Self(t).arg, heap.history, reply)
          IN  Proceed(t, [Self(t) EXCEPT
                  !.ai_reply = reply,
                  !.ai_result = ai_result,
                  !.at = IF ai_result.raised THEN "except" ELSE "merge"])
    /\ UNCHANGED heap
    /\ Idle

\* Step 3, first branch: final_result = self._combine_classification_results(...)
ConcurrentCombine(t) ==
    /\ Self(t).at = "merge"
    /\ Store(t, _combine_classification_results(Result(t), Self(t).ai_result.value))
    /\ Proceed(t, [Self(t) EXCEPT !.at = "resolve_strategy"])
    /\ Idle

\* Step 3, else branch: final_result.classification_method = "keyword_context"
ConcurrentSkipAI(t) ==
    /\ Self(t).at = "skip"
    /\ Store(t, [Result(t) EXCEPT !.classification_method = "keyword_context"])
    /\ Proceed(t, [Self(t) EXCEPT !.at = "resolve_strategy"])
    /\ Idle

\* Step 4: return self._determine_strategy_parameters(final_result), which
\* sets the fields of the object and returns it
ConcurrentStrategy(t) ==
    /\ Self(t).at = "resolve_strategy"
    /\ Store(t, _determine_strategy_parameters(Result(t)))
    /\ Proceed(t, [Self(t) EXCEPT
           !.ret = Returned(_determine_strategy_parameters(Result(t))),
           !.at = "done"])
    /\ Idle

\* except Exception: return self._get_fallback_classification(message)
ConcurrentFallback(t) ==
    /\ Self(t).at = "except"
    /\ Proceed(t, [Self(t) EXCEPT
           !.ret = _get_fallback_classification(Self(t).arg),
           !.at = "done"])
    /\ UNCHANGED heap
    /\ Idle

NextConcurrent ==
    \E t \in Threads :
        \/ ConcurrentVerify(t)
        \/ ConcurrentKeywords(t)
        \/ ConcurrentContext(t)
        \/ ConcurrentAI(t)
        \/ ConcurrentCombine(t)
        \/ ConcurrentSkipAI(t)
        \/ ConcurrentStrategy(t)
        \/ ConcurrentFallback(t)

SpecConcurrent == InitConcurrent /\ [][NextConcurrent]_vars

(***************************************************************************)
(* OpenRouterClient: what the chat handler uses of it.  A reply of the     *)
(* model to a command request is [kind |-> "error"] (timeout, HTTP error,  *)
(* content that is not a JSON list) or [kind |-> "list", items |-> seq],   *)
(* the items being Python values.                                          *)
(***************************************************************************)
\* the words of ws with .* between them
RECURSIVE SpreadFrom(_, _)
SpreadFrom(ws, k) ==
    IF k = Len(ws) THEN <<Lit(ws[k])>>
    ELSE <<Lit(ws[k]), Star(Cls("."))>> \o SpreadFrom(ws, k + 1)

Spread(ws) == Cat(SpreadFrom(ws, 1))

simple_patterns ==
    << Lit("what pods"), Lit("show me pods"), Lit("list pods"), Lit("get pods"),
       Lit("what services"), Lit("show me services"), Lit("list services"),
       Lit("get services"),
       Lit("what deployments"), Lit("show me deployments"),
       Lit("list deployments"), Lit("get deployments"),
       Lit("what namespaces"), Lit("show me namespaces"), Lit("list namespaces"),
       Lit("get namespaces"),
       Lit("check pods"), Lit("check services"), Lit("check deployments"),
       Lit("check namespaces"),
       Lit("pods in"), Lit("services in"), Lit("deployments in"),
       Lit("namespaces in"),
       Spread(<<"what", "in", "namespace">>),
       Spread(<<"show", "in", "namespace">>) >>

complex_patterns ==
    << Lit("what's wrong"), Lit("whats wrong"), Lit("what is wrong"),
       Lit("investigate"), Lit("troubleshoot"), Lit("diagnose"), Lit("debug"),
       Spread(<<"why", "failing">>), Spread(<<"why", "error">>),
       Spread(<<"why", "stuck">>), Spread(<<"why", "pending">>),
       Lit("problem"), Lit("issue"), Lit("broken"), Lit("crash"), Lit("error"),
       Lit("analyze"), Lit("examine"),
       Spread(<<"help", "pod">>), Spread(<<"help", "service">>) >>

_is_simple_listing_question(user_message) ==
    IF user_message.t # "str" THEN NoAttribute(user_message, "lower")
    ELSE
    LET user_message_lower == strip(lower(user_message.v))
    IN  IF \E k \in DOMAIN complex_patterns :
               search(complex_patterns[k], user_message_lower)
        THEN Returned(FALSE)
        ELSE Returned(\E k \in DOMAIN simple_patterns :
                          search(simple_patterns[k], user_message_lower))

\* the loop that validates and cleans the commands of a parsed list
RECURSIVE clean_commands(_)
clean_commands(commands) ==
    IF commands = <<>> THEN <<>>
    ELSE LET cmd == Head(commands)
         IN  (IF cmd.t = "str" /\ startswith(strip(cmd.v), "kubectl")
              THEN <<strip(cmd.v)>> ELSE <<>>)
             \o clean_commands(Tail(commands))

\* seq[:n]; a negative n counts from the end
FirstN(seq, n) ==
    IF n < 0 THEN (IF Len(seq) + n <= 0 THEN <<>> ELSE SubSeq(seq, 1, Len(seq) + n))
    ELSE IF Len(seq) <= n THEN seq ELSE SubSeq(seq, 1, n)

suggest_commands(user_question, reply) ==
    IF _is_simple_listing_question(user_question).raised \/ reply.kind # "list"
    THEN <<>>
    ELSE FirstN(clean_commands(reply.items), 5)

suggest_follow_up_commands(original_question, reply) ==
    LET is_simple == _is_simple_listing_question(original_question)
    IN  IF is_simple.raised \/ is_simple.value \/ reply.kind # "list"
        THEN <<>>
        ELSE FirstN(clean_commands(reply.items), 2)

_get_fallback_classification_response ==
    [kind |-> "json", data |->
        [complexity_score |-> JsonNumber(500),
         question_type |-> JsonString("moderate_investigation"),
         confidence |-> JsonNumber(300),
         reasoning |-> JsonString("Fallback classification due to AI error"),
         suggested_max_commands |-> JsonNumber(2),
         follow_up_allowed |-> JsonBool(TRUE),
         response_style |-> JsonString("detailed")]]

\* OpenRouterClient.classify_question: the content of the model's reply, or
\* the fallback response when the request failed
OpenRouterClient_classify_question(reply) ==
    IF reply.kind = "raise" THEN _get_fallback_classification_response ELSE reply

(***************************************************************************)
(* The chat handler (src/app.py), one request on one session               *)
(***************************************************************************)
MaxSuggested == 2

ChatMessages ==
    { PyStr("show me pods"),
      PyStr("investigate why my deployment is crashing"),
      PyStr("hello"),
      PyNone }

\* the bodies of the requests: with and without user_id, and one without message
RequestInputs ==
    {[message |-> m, user_id |-> u] : m \in ChatMessages, u \in {PyInt("7"), PyNone}}
    \cup {[user_id |-> PyInt("7")]}

\* the history of the session before the request
StoredHistories ==
    { <<>>,
      <<Entry("user", PyStr("show pods")),
        Entry("assistant", PyStr("Here are the pods."))>> }

\* what the model may put in a list of commands
ProposedItems ==
    { PyStr("kubectl get pods"),
      PyStr("  kubectl delete pod web "),
      PyStr("kubectl get pods -n <namespace>"),
      PyStr("rm -rf /") }

\* a list longer than every limit of the handler
LongList ==
    [k \in 1..6 |-> PyStr("kubectl get pods")]

CommandReplies ==
    {[kind |-> "error"]}
    \cup {[kind |-> "list", items |-> items] :
            items \in UNION {[1..n -> ProposedItems] : n \in 0..MaxSuggested}
                      \cup {LongList}}

\* the replies of the model to the classification request
ClassificationReplies ==
    { [kind |-> "raise"],
      [kind |-> "json", data |->
          [complexity_score |-> JsonNumber(900),
           question_type |-> JsonString("deep_analysis"),
           confidence |-> JsonNumber(900),
           suggested_max_commands |-> JsonNumber(4)]],
      [kind |-> "json", data |->
          [complexity_score |-> JsonNumber(2000),
           confidence |-> JsonNumber(2000),
           suggested_max_commands |-> JsonNumber(10)]] }

\* max_commands_preference: PUT /user/preferences stores the integer it is
\* given; 0 stands for no preference
PreferenceInputs == {0, 1, 0 - 1}

InitChat ==
    /\ data \in RequestInputs
    /\ user_prefs \in PreferenceInputs
    /\ active_api_key \in BOOLEAN
    /\ session_history \in StoredHistories
    /\ chat_stage = "request"
    /\ max_commands = 0
    /\ command_outputs = {}
    /\ executed_commands = <<>>
    /\ kubectl_calls = <<>>
    /\ response = <<>>
    /\ VerifierIdle
    /\ ClassifierIdle
    /\ OthersIdle

\* cmd.split()[1:]
cmd_parts(cmd) == Tail(split(cmd))

\* the loop `for cmd in commands`: each command is handed to
\* _run_kubectl_command and recorded
Execute(commands) ==
    /\ kubectl_calls' = kubectl_calls \o [k \in DOMAIN commands |-> cmd_parts(commands[k])]
    /\ executed_commands' = executed_commands \o commands
    /\ command_outputs' = command_outputs \cup Range(commands)

Reply(status, analysis_type, commands) ==
    [status |-> status, analysis_type |-> analysis_type,
     commands_executed |-> commands]

\* from the request to Step 2: the checks of the body, the user message
\* appended to the history, the classification and the command budget
ChatClassify ==
    /\ chat_stage = "request"
    /\ IF "message" \notin DOMAIN data
       THEN /\ response' = Reply(400, "none", <<>>)
            /\ chat_stage' = "done"
            /\ UNCHANGED <<session_history, classification, max_commands>>
       ELSE IF ~Truthy(data.user_id)
       THEN /\ response' = Reply(401, "none", <<>>)
            /\ chat_stage' = "done"
            /\ UNCHANGED <<session_history, classification, max_commands>>
       ELSE /\ session_history' = Append(session_history, Entry("user", data.message))
            /\ IF ~active_api_key
               THEN /\ response' = Reply(400, "none", <<>>)
                    /\ chat_stage' = "done"
                    /\ UNCHANGED <<classification, max_commands>>
               ELSE \E reply \in ClassificationReplies :
                    /\ classification' =
                           classify_question(data.message, session_history', TRUE,
                               OpenRouterClient_classify_question(reply))
                    /\ IF classification'.raised
                       THEN /\ response' = Reply(500, "none", <<>>)
                            /\ chat_stage' = "done"
                            /\ UNCHANGED max_commands
                       ELSE /\ max_commands' =
                                   IF user_prefs # 0
                                      /\ user_prefs
                                           < classification'.value.suggested_max_commands
                                   THEN user_prefs
                                   ELSE classification'.value.suggested_max_commands
                            /\ chat_stage' = "suggest"
                            /\ UNCHANGED response
    /\ UNCHANGED <<data, user_prefs, active_api_key, command_outputs,
                   executed_commands, kubectl_calls, verifier_vars, other_vars, question,
                   history, ai_client, stage, final_result, ai_reply,
                   ai_classification, ai_calls>>

\* Steps 3 and 4: the suggested commands, cut to the budget, are executed one
\* after the other; with no command the handler answers with advice
ChatDiscovery ==
    /\ chat_stage = "suggest"
    /\ \E reply \in CommandReplies :
          LET suggested_commands ==
                  FirstN(suggest_commands(data.message, reply), max_commands)
          IN  IF suggested_commands = <<>>
              THEN /\ session_history' =
                          Append(session_history, Entry("assistant", PyStr("advice")))
                   /\ response' = Reply(200, "advice_only", <<>>)
                   /\ chat_stage' = "done"
                   /\ UNCHANGED <<command_outputs, executed_commands, kubectl_calls>>
              ELSE /\ Execute(suggested_commands)
                   /\ chat_stage' = "follow_up"
                   /\ UNCHANGED <<session_history, response>>
    /\ UNCHANGED <<data, user_prefs, active_api_key, max_commands, verifier_vars, other_vars,
                   classifier_vars>>

\* Steps 5 and 6: the follow-up commands, at most two, are executed when the
\* classification allows them; the outputs are analysed and the answer sent
ChatFollowUp ==
    /\ chat_stage = "follow_up"
    /\ IF /\ classification.value.follow_up_allowed
          /\ command_outputs # {}
          /\ classification.value.question_type
                \in {"MODERATE_INVESTIGATION", "DEEP_ANALYSIS"}
       THEN \E reply \in CommandReplies :
               LET follow_up_commands ==
                       FirstN(suggest_follow_up_commands(data.message, reply), 2)
               IN  /\ Execute(follow_up_commands)
                   /\ response' = Reply(200, "command_based",
                                        executed_commands \o follow_up_commands)
       ELSE /\ response' = Reply(200, "command_based", executed_commands)
            /\ UNCHANGED <<command_outputs, executed_commands, kubectl_calls>>
    /\ session_history' = Append(session_history, Entry("assistant", PyStr("analysis")))
    /\ chat_stage' = "done"
    /\ UNCHANGED <<data, user_prefs, active_api_key, max_commands, verifier_vars, other_vars,
                   classifier_vars>>

NextChat ==
    \/ ChatClassify
    \/ ChatDiscovery
    \/ ChatFollowUp

SpecChat == InitChat /\ [][NextChat]_vars

(***************************************************************************)
(* Properties of the classifier                                            *)
(***************************************************************************)
\* classify_question has returned a ClassificationResult
Classified == stage = "done" /\ ~classification.raised

\* the fields a complexity_score tier dictates
TierFields(r, question_type, strategy_type, follow_up_allowed, response_style) ==
    /\ r.question_type = question_type
    /\ r.strategy_type = strategy_type
    /\ r.follow_up_allowed = follow_up_allowed
    /\ r.response_style = response_style

\* C9: every ClassificationResult that classify_question returns, on the
\* keyword-only, the hybrid and the fallback path, has the question type, the
\* strategy type, the follow-up permission and the response style of the tier
\* of its complexity_score: deep from 0.7 with at least 3 commands, moderate
\* from 0.4 with at least 2 commands, simple below 0.4 with exactly 1 command.
\* Follow-up is allowed only for moderate and deep, and UNKNOWN is never
\* returned.
C9_StrategyConsistency ==
    Classified =>
        LET r == classification.value
        IN  /\ r.complexity_score >= 700 =>
                  /\ TierFields(r, "DEEP_ANALYSIS", "DEEP_ANALYSIS", TRUE,
                                "comprehensive")
                  /\ r.suggested_max_commands >= 3
            /\ (r.complexity_score >= 400 /\ r.complexity_score < 700) =>
                  /\ TierFields(r, "MODERATE_INVESTIGATION",
                                "MODERATE_INVESTIGATION", TRUE, "detailed")
                  /\ r.suggested_max_commands >= 2
            /\ r.complexity_score < 400 =>
                  /\ TierFields(r, "SIMPLE_LISTING", "SIMPLE_DISCOVERY", FALSE,
                                "concise")
                  /\ r.suggested_max_commands = 1
            /\ r.follow_up_allowed =>
                  r.question_type \in {"MODERATE_INVESTIGATION", "DEEP_ANALYSIS"}
            /\ r.question_type # "UNKNOWN"

\* a hybrid result whose merge took the AI side's UNKNOWN type, and a result of
\* the fallback path, have both been returned in their tier's shape
C9_Witness ==
    /\ Classified
    /\ \/ /\ classification.value.classification_method = "hybrid"
          /\ final_result.value.question_type = "UNKNOWN"
          /\ classification.value.question_type = "MODERATE_INVESTIGATION"
       \/ /\ classification.value.classification_method = "fallback"
          /\ final_result.raised
          /\ classification.value.question_type = "MODERATE_INVESTIGATION"

\* C10: the complexity_score and the confidence of the ClassificationResult
\* that classify_question returns both lie in [0.0, 1.0].
C10_ScoreAndConfidenceClamped ==
    Classified =>
        /\ classification.value.complexity_score \in 0..1000
        /\ classification.value.confidence \in 0..1000

\* C11: the suggested_max_commands of every ClassificationResult that
\* classify_question returns is one of 1, 2, 3, 4 (and does not decrease from
\* the simple to the moderate to the deep tier).
C11_MaxCommandsInRange ==
    Classified => classification.value.suggested_max_commands \in 1..4

\* C12: classify_question never lets an exception escape: whatever the
\* message, the history and the behaviour of the AI collaborator, the call
\* returns a ClassificationResult.
C12_NeverRaises == stage = "done" => ~classification.raised

\* the collaborator was called and raised, or returned text without JSON
AIFailed == ai_calls > 0 /\ ai_reply.kind \in {"raise", "text"}

\* C13: when the AI collaborator is consulted and raises or returns
\* unparsable output, the returned result has classification_method
\* "fallback" and the fixed confidence 0.3.
C13_DegradedPathIsFallback ==
    (Classified /\ AIFailed) =>
        /\ classification.value.classification_method = "fallback"
        /\ classification.value.confidence = 300

\* the call has returned, it was made without history and without AI client,
\* and the message is a string
KeywordOnlyCall ==
    /\ Classified
    /\ history = <<>>
    /\ ~ai_client
    /\ question.t = "str"

\* the message matches a pattern of the group
MatchesGroup(group) == Matching(group, lower(question.v)) # <<>>

\* C14: with no history and no AI client, a question that matches a
\* simple-listing pattern and no deep-analysis or moderate-investigation
\* pattern, such as "show me pods", is classified SIMPLE_LISTING with one
\* command and no follow-up.
C14_SimpleListingExample ==
    (/\ KeywordOnlyCall
     /\ MatchesGroup(simple_listing_patterns)
     /\ ~MatchesGroup(deep_analysis_patterns)
     /\ ~MatchesGroup(moderate_investigation_patterns)) =>
        /\ classification.value.question_type = "SIMPLE_LISTING"
        /\ classification.value.suggested_max_commands = 1
        /\ ~classification.value.follow_up_allowed

\* C15: with no history and no AI client, a question that matches a
\* deep-analysis pattern and no simple-listing or negative pattern, such as
\* "investigate why my deployment is crashing", is classified DEEP_ANALYSIS
\* with at least 3 commands and follow-up allowed.
C15_DeepAnalysisExample ==
    (/\ KeywordOnlyCall
     /\ MatchesGroup(deep_analysis_patterns)
     /\ ~MatchesGroup(simple_listing_patterns)
     /\ ~MatchesGroup(negative_patterns)) =>
        /\ classification.value.question_type = "DEEP_ANALYSIS"
        /\ classification.value.suggested_max_commands >= 3
        /\ classification.value.follow_up_allowed

C15_Witness ==
    /\ KeywordOnlyCall
    /\ question = PyStr("investigate why my deployment is crashing")
    /\ classification.value.question_type = "DEEP_ANALYSIS"
    /\ classification.value.suggested_max_commands = 3
    /\ classification.value.follow_up_allowed

\* the results of _get_fallback_classification the call has produced: the
\* one the AI step computed and the one the call returned
FallbacksProduced ==
    {r \in {ai_classification, classification} :
        /\ r # NotCalled
        /\ ~r.raised
        /\ r.value.classification_method = "fallback"}

\* the user's message holds one of wrong, error, fail, investigate
MentionsTrouble ==
    \E k \in DOMAIN FallbackWords : Contains(lower(question.v), FallbackWords[k])

\* C22: every fallback classification produced for a message, be it because
\* the pipeline threw or because the AI reply could not be parsed, is the
\* MODERATE_INVESTIGATION one (0.6, 2 commands, follow-up, detailed) when
\* the user's message holds wrong, error, fail or investigate, and the
\* SIMPLE_LISTING one (0.3, 1 command, no follow-up, concise) otherwise.
C22_FallbackFollowsUserMessage ==
    question.t = "str" =>
        \A r \in FallbacksProduced :
            IF MentionsTrouble
            THEN /\ r.value.question_type = "MODERATE_INVESTIGATION"
                 /\ r.value.complexity_score = 600
                 /\ r.value.suggested_max_commands = 2
                 /\ r.value.follow_up_allowed
                 /\ r.value.response_style = "detailed"
            ELSE /\ r.value.question_type = "SIMPLE_LISTING"
                 /\ r.value.complexity_score = 300
                 /\ r.value.suggested_max_commands = 1
                 /\ ~r.value.follow_up_allowed
                 /\ r.value.response_style = "concise"

\* the call has gone through _apply_context_awareness on a history whose
\* messages are all strings
ContextApplied ==
    /\ stage \in {"ai_fallback", "skip", "merge", "resolve_strategy", "done"}
    /\ \A k \in DOMAIN history : history[k].message.t = "str"

\* the user-role messages of the history, in order
UserMessages == SelectSeq(history, LAMBDA msg : msg.role = "user")

\* at least half of the last rule.window user-role messages match one of the
\* rule's patterns, the history holding at least rule.window messages
HalfOfUserWindow(rule) ==
    /\ Len(history) >= rule.window
    /\ LET recent == LastN(UserMessages, rule.window)
           hits == {k \in DOMAIN recent :
                       \E j \in DOMAIN rule.patterns :
                           Contains(lower(recent[k].message.v), rule.patterns[j][2])}
       IN  2 * Cardinality(hits) >= rule.window

\* the rule's test as _apply_context_awareness evaluates it on this history
Triggers(rule) == _matches_context_pattern(LastN(history, 5), rule).value

\* C23: a context rule with window N triggers exactly when at least half of
\* the last N user-role messages of the history match one of its patterns
\* (2 of 3 for investigation continuation); assistant messages take no place
\* in the window, and a history of fewer than N messages never triggers.
C23_WindowOfUserMessages ==
    (ContextApplied /\ history # <<>>) =>
        /\ Triggers(context_rules.investigation_continuation)
              = HalfOfUserWindow(context_rules.investigation_continuation)
        /\ Triggers(context_rules.simple_browsing)
              = HalfOfUserWindow(context_rules.simple_browsing)
        /\ Triggers(context_rules.problem_followup)
              = HalfOfUserWindow(context_rules.problem_followup)

\* _apply_context_awareness has just returned
JustAdjusted == ContextApplied /\ stage \in {"ai_fallback", "skip"}

\* the changes of score and confidence of the first rule, in the order
\* investigation continuation, simple browsing, problem follow-up, whose
\* test succeeds; no change when no test succeeds
PriorityAdjustment ==
    IF history = <<>> THEN <<0, 0>>
    ELSE IF Triggers(context_rules.investigation_continuation) THEN <<300, 200>>
    ELSE IF Triggers(context_rules.simple_browsing) THEN <<0 - 200, 100>>
    ELSE IF Triggers(context_rules.problem_followup) THEN <<400, 300>>
    ELSE <<0, 0>>

\* C24: context adjustment applies the adjustment of one rule at most, the
\* first in the order investigation continuation (+0.3, +0.2), simple
\* browsing (-0.2, +0.1), problem follow-up (+0.4, +0.3) that matches, and
\* the score and the confidence are clamped to [0, 1] and [0.1, 1] afterwards.
C24_OneRuleInPriorityOrder ==
    JustAdjusted =>
        LET keyword_result == Lookup(KeywordResults, question).value
        IN  /\ final_result.value.complexity_score =
                  Clamp(0, 1000, keyword_result.complexity_score + PriorityAdjustment[1])
            /\ final_result.value.confidence =
                  Clamp(100, 1000, keyword_result.confidence + PriorityAdjustment[2])

\* investigation continuation and problem follow-up both match the history,
\* and the adjustment made is the one of investigation continuation
C24_Witness ==
    /\ JustAdjusted
    /\ Len(history) >= 4
    /\ Triggers(context_rules.investigation_continuation)
    /\ Triggers(context_rules.problem_followup)
    /\ Contains(final_result.value.reasoning, "Investigation continuation detected")
    /\ ~Contains(final_result.value.reasoning, "Problem follow-up detected")

\* the AI collaborator is called only from the AI step, which follows the
\* keyword and context steps, for a first time, with a collaborator supplied
\* and a post-context confidence below 0.7
AIOnlyWhenNeeded ==
    ai_calls' > ai_calls =>
        /\ stage = "ai_fallback"
        /\ ai_calls = 0
        /\ ai_client
        /\ final_result.value.confidence < 700

\* strategy resolution is entered from the merge or from the skip, and the
\* call returns from it
StrategyLast ==
    /\ (stage' = "resolve_strategy" /\ stage # "resolve_strategy")
           => stage \in {"merge", "skip"}
    /\ stage = "resolve_strategy" => stage' \in {"resolve_strategy", "done"}

HybridIffInvoked ==
    Classified =>
        (classification.value.classification_method = "hybrid" <=> ai_calls > 0)

\* C25: within one call the AI collaborator is invoked at most once, only
\* after keyword scoring and context adjustment, only with a post-context
\* confidence below 0.7 and a collaborator supplied; strategy resolution
\* follows the merge or the skip and is the last step; and the returned
\* classification_method is "hybrid" exactly when the collaborator was invoked.
C25_PipelineOrder ==
    /\ [](ai_calls <= 1)
    /\ [][AIOnlyWhenNeeded /\ StrategyLast]_vars
    /\ []HybridIffInvoked

\* C26: for one message and one history, two parsable AI replies that agree
\* on complexity_score, confidence, reasoning and suggested_max_commands and
\* differ only in question_type, follow_up_allowed or response_style make
\* classify_question return the same ClassificationResult.
C26_CategoricalFieldsIgnored ==
    twin_results # <<>> => twin_results[1] = twin_results[2]

\* the collaborator was consulted, its two replies differ in each of the
\* three categorical fields, and the two results are one hybrid result
C26_Witness ==
    /\ twin_results # <<>>
    /\ twin_replies[1].data.question_type # twin_replies[2].data.question_type
    /\ twin_replies[1].data.follow_up_allowed # twin_replies[2].data.follow_up_allowed
    /\ twin_replies[1].data.response_style # twin_replies[2].data.response_style
    /\ ~twin_results[1].raised
    /\ twin_results[1].value.classification_method = "hybrid"
    /\ twin_results[1] = twin_results[2]

\* the call has returned the merge of the keyword side and the AI side
ReturnedHybrid ==
    /\ Classified
    /\ classification.value.classification_method = "hybrid"

\* the keyword result after context adjustment, recomputed from the arguments
PostContext ==
    ApplyRule(Lookup(KeywordResults, question).value, history,
              Lookup(MatchedRules, history)).value

\* C27: on the hybrid path the returned complexity_score is 0.4 times the
\* post-context keyword score plus 0.6 times the AI score, the returned
\* confidence is 0.4 times the post-context keyword confidence plus 0.6
\* times the AI confidence, and the command count entering strategy
\* resolution is the larger of the two sides' suggested_max_commands.
\* Scores are in thousandths, so both sides are scaled by 1000.
C27_WeightedMerge ==
    ReturnedHybrid =>
        /\ 1000 * classification.value.complexity_score =
               400 * PostContext.complexity_score
               + 600 * ai_classification.value.complexity_score
        /\ 1000 * classification.value.confidence =
               400 * PostContext.confidence
               + 600 * ai_classification.value.confidence
        /\ final_result.value.suggested_max_commands =
               Max(PostContext.suggested_max_commands,
                   ai_classification.value.suggested_max_commands)

\* a hybrid result whose two sides differ in score, in confidence and in
\* command count, the AI reply having been parsed
C27_Witness ==
    /\ ReturnedHybrid
    /\ ai_classification.value.classification_method = "ai"
    /\ PostContext.complexity_score # ai_classification.value.complexity_score
    /\ PostContext.confidence # ai_classification.value.confidence
    /\ PostContext.suggested_max_commands
           < ai_classification.value.suggested_max_commands

(***************************************************************************)
(* Properties of the chat handler                                          *)
(***************************************************************************)
\* the commands the handler can receive from the model
ReceivedCommands ==
    {strip(item.v) : item \in {i \in ProposedItems \cup Range(LongList) : i.t = "str"}}

\* those of them the verifier accepts: has_placeholders finds no placeholder
\* and is_safe_command returns True
AcceptedByVerifier ==
    {cmd \in ReceivedCommands :
        /\ ~has_placeholders(PyStr(cmd)).value.ok
        /\ is_safe_command(PyStr(cmd)).value.ok}

\* C1: every command handed to _run_kubectl_command, in the discovery round
\* and in the follow-up round, is one the verifier accepts; a command the
\* verifier rejects is never executed.
C1_ExecutedWereAccepted ==
    \A k \in DOMAIN executed_commands : executed_commands[k] \in AcceptedByVerifier

\* C16: in one chat request the number of commands handed to
\* _run_kubectl_command, discovery and follow-up commands together, never
\* exceeds the suggested_max_commands of the request's ClassificationResult.
C16_ExecutionWithinBudget ==
    kubectl_calls # <<>> =>
        Len(kubectl_calls) <= classification.value.suggested_max_commands

(***************************************************************************)
(* The /admin endpoints of app.py and AuthMiddleware.require_admin.  A     *)
(* request carries user_info, what AuthMiddleware.authenticate_request     *)
(* finds for it: None with no valid session or token, the user's record    *)
(* otherwise.                                                              *)
(***************************************************************************)
UserInfo(user_id, role) == [t |-> "dict", v |-> [user_id |-> user_id, role |-> role]]

\* AuthMiddleware.require_admin: the status it answers with, 0 when it lets
\* the wrapped handler run
require_admin(user_info) ==
    IF ~(user_info.t = "dict") THEN 401
    ELSE IF user_info.v.role # "admin" THEN 403
    ELSE 0

MaxRequests == 2

UserIds == {1, 2}

Requesters == {PyNone, UserInfo(2, "user"), UserInfo(1, "admin")}

RoleInputs == {"admin", "user", "root"}

InitAdmin ==
    /\ db = [users |-> [u \in UserIds |->
                           [role |-> IF u = 1 THEN "admin" ELSE "user",
                            is_banned |-> FALSE]],
             kubeconfigs |-> {1},
             api_keys |-> {1}]
    /\ served = <<>>
    /\ VerifierIdle
    /\ ClassifierIdle
    /\ ChatIdle
    /\ ConcurrentIdle
    /\ TwinsIdle
    /\ SessionsIdle

\* the request and its response are recorded: the status sent, the table
\* whose rows the body carries, and whether the database was changed
Serve(endpoint, user_info, status, sent) ==
    served' = Append(served,
                     [endpoint |-> endpoint, user_info |-> user_info,
                      status |-> status, sent |-> sent, changed |-> db' # db])

AdminFrame ==
    UNCHANGED <<verifier_vars, classifier_vars, chat_vars, concurrent_vars, twin_vars,
                sessions_vars>>

\* GET /admin/users; db.get_all_users returns [] when the query fails
get_users ==
    /\ Len(served) < MaxRequests
    /\ \E user_info \in Requesters, db_up \in BOOLEAN :
          /\ db' = db
          /\ Serve("get_users", user_info, 200, IF db_up THEN "users" ELSE "none")
    /\ AdminFrame

\* POST /admin/users/<user_id>/ban
ban_user ==
    /\ Len(served) < MaxRequests
    /\ \E user_info \in Requesters, user_id \in UserIds, db_up \in BOOLEAN :
          IF db_up
          THEN /\ db' = [db EXCEPT !.users[user_id].is_banned = TRUE]
               /\ Serve("ban_user", user_info, 200, "none")
          ELSE /\ db' = db
               /\ Serve("ban_user", user_info, 500, "none")
    /\ AdminFrame

\* POST /admin/users/<user_id>/unban
unban_user ==
    /\ Len(served) < MaxRequests
    /\ \E user_info \in Requesters, user_id \in UserIds, db_up \in BOOLEAN :
          IF db_up
          THEN /\ db' = [db EXCEPT !.users[user_id].is_banned = FALSE]
               /\ Serve("unban_user", user_info, 200, "none")
          ELSE /\ db' = db
               /\ Serve("unban_user", user_info, 500, "none")
    /\ AdminFrame

\* PUT /admin/users/<user_id>/role with body {"role": new_role}
update_user_role ==
    /\ Len(served) < MaxRequests
    /\ \E user_info \in Requesters, user_id \in UserIds, new_role \in RoleInputs,
          db_up \in BOOLEAN :
          IF new_role \notin {"admin", "user"}
          THEN /\ db' = db
               /\ Serve("update_user_role", user_info, 400, "none")
          ELSE IF db_up
          THEN /\ db' = [db EXCEPT !.users[user_id].role = new_role]
               /\ Serve("update_user_role", user_info, 200, "none")
          ELSE /\ db' = db
               /\ Serve("update_user_role", user_info, 500, "none")
    /\ AdminFrame

\* GET /admin/kubeconfigs
get_kubeconfigs ==
    /\ Len(served) < MaxRequests
    /\ \E user_info \in Requesters, db_up \in BOOLEAN :
          /\ db' = db
          /\ Serve("get_kubeconfigs", user_info, 200,
                   IF db_up THEN "kubeconfigs" ELSE "none")
    /\ AdminFrame

\* DELETE /admin/kubeconfigs/<kubeconfig_id>; db.delete_kubeconfig returns
\* True whether or not a row was deleted
delete_kubeconfig ==
    /\ Len(served) < MaxRequests
    /\ \E user_info \in Requesters, kubeconfig_id \in {1}, db_up \in BOOLEAN :
          IF db_up
          THEN /\ db' = [db EXCEPT !.kubeconfigs = @ \ {kubeconfig_id}]
               /\ Serve("delete_kubeconfig", user_info, 200, "none")
          ELSE /\ db' = db
               /\ Serve("delete_kubeconfig", user_info, 500, "none")
    /\ AdminFrame

\* GET /admin/api-keys
get_api_keys ==
    /\ Len(served) < MaxRequests
    /\ \E user_info \in Requesters, db_up \in BOOLEAN :
          /\ db' = db
          /\ Serve("get_api_keys", user_info, 200,
                   IF db_up THEN "api_keys" ELSE "none")
    /\ AdminFrame

\* DELETE /admin/api-keys/<api_key_id>; db.delete_api_key returns
\* cursor.rowcount > 0
delete_api_key ==
    /\ Len(served) < MaxRequests
    /\ \E user_info \in Requesters, api_key_id \in {1}, db_up \in BOOLEAN :
          IF db_up /\ api_key_id \in db.api_keys
          THEN /\ db' = [db EXCEPT !.api_keys = @ \ {api_key_id}]
               /\ Serve("delete_api_key", user_info, 200, "none")
          ELSE /\ db' = db
               /\ Serve("delete_api_key", user_info, 500, "none")
    /\ AdminFrame

NextAdmin ==
    \/ get_users
    \/ ban_user
    \/ unban_user
    \/ update_user_role
    \/ get_kubeconfigs
    \/ delete_kubeconfig
    \/ get_api_keys
    \/ delete_api_key

SpecAdmin == InitAdmin /\ [][NextAdmin]_vars

(***************************************************************************)
(* Properties of the /admin endpoints                                      *)
(***************************************************************************)
\* C20: an /admin request that require_admin refuses (no valid session or
\* token: 401; authenticated without the admin role: 403) is answered with
\* that status, and the handler neither returns rows of the users,
\* kubeconfigs or api_keys tables nor changes the database.
C20_AdminEndpointsRequireAdmin ==
    \A k \in DOMAIN served :
        require_admin(served[k].user_info) # 0 =>
            /\ served[k].status = require_admin(served[k].user_info)
            /\ served[k].sent = "none"
            /\ ~served[k].changed

\* the discovery round is over: its commands have been executed
DiscoveryDone == chat_stage = "follow_up"

\* the discovery commands executed number at most suggested_max_commands, and
\* at most the user's max_commands_preference when one is set
DiscoveryWithinBudget ==
    DiscoveryDone =>
        /\ Len(kubectl_calls) <= classification.value.suggested_max_commands
        /\ user_prefs # 0 => Len(kubectl_calls) <= user_prefs

\* commands are executed in the follow-up round only after the discovery
\* round, with follow_up_allowed, a question type MODERATE_INVESTIGATION or
\* DEEP_ANALYSIS and a discovery output, and two at most
FollowUpGated ==
    (Len(kubectl_calls') > Len(kubectl_calls) /\ chat_stage # "suggest") =>
        /\ DiscoveryDone
        /\ classification.value.follow_up_allowed
        /\ classification.value.question_type
              \in {"MODERATE_INVESTIGATION", "DEEP_ANALYSIS"}
        /\ command_outputs # {}
        /\ Len(kubectl_calls') - Len(kubectl_calls) <= 2

\* C29: in a chat request follow-up commands are executed only after every
\* discovery command, only with follow_up_allowed (question type
\* MODERATE_INVESTIGATION or DEEP_ANALYSIS) and a discovery output, and at
\* most 2 of them; the discovery commands executed never exceed
\* suggested_max_commands, nor the user's max_commands_preference when set.
C29_RoundsAreGated ==
    []DiscoveryWithinBudget /\ [][FollowUpGated]_vars

(***************************************************************************)
(* The conversation histories of the chat handler over several requests.   *)
(* Each request is taken from its body to its answer; the command rounds   *)
(* of the handler read the history and do not change it, so they are left  *)
(* to the model of one request above.  A user's questions and the answers  *)
(* given to that user carry the user's id in their text.                   *)
(***************************************************************************)
MaxChats == 3

ChatUsers == {"7", "8"}

\* the session_id of the body; "default" is what data.get gives when the
\* body has none
SessionInputs == {"default", "s1"}

QuestionOf(user_id) == PyStr("show the pods of user " \o user_id)

AnswerTo(user_id) == PyStr("Here are the pods of user " \o user_id)

\* the rows of chat_history when the server starts
StoredChats ==
    { [key \in ChatUsers \X SessionInputs |-> <<>>],
      [key \in ChatUsers \X SessionInputs |->
          IF key = <<"7", "s1">>
          THEN <<Entry("user", QuestionOf("7")), Entry("assistant", AnswerTo("7"))>>
          ELSE <<>>] }

InitSessions ==
    /\ app_conversation_history = [s \in {} |-> <<>>]
    /\ chat_db \in StoredChats
    /\ passed = <<>>
    /\ VerifierIdle
    /\ ClassifierIdle
    /\ ChatIdle
    /\ ConcurrentIdle
    /\ AdminIdle
    /\ TwinsIdle

\* app.app_conversation_history[session_id] once the handler has initialised it
\* and appended the user's message
WithUserMessage(user_id, session_id) ==
    Append(IF session_id \in DOMAIN app_conversation_history
           THEN app_conversation_history[session_id]
           ELSE chat_db[<<user_id, session_id>>],
           Entry("user", QuestionOf(user_id)))

\* POST /chat by user_id on session_id: the history of the session is
\* initialised from the database when the session is not in memory, the
\* message is appended, and, with an active API key, the history is handed
\* to the classifier and to the LLM and the answer is appended and saved
ChatRequest ==
    /\ Len(passed) < MaxChats
    /\ \E user_id \in ChatUsers, session_id \in SessionInputs, has_key \in BOOLEAN :
          LET seen == WithUserMessage(user_id, session_id)
              answered == Append(seen, Entry("assistant", AnswerTo(user_id)))
              stored == IF has_key THEN answered ELSE seen
          IN  /\ app_conversation_history' =
                     [s \in DOMAIN app_conversation_history \cup {session_id} |->
                         IF s = session_id THEN stored ELSE app_conversation_history[s]]
              /\ passed' = Append(passed,
                     [user_id |-> user_id, session_id |-> session_id,
                      history |-> IF has_key THEN seen ELSE <<>>])
              /\ chat_db' =
                     IF has_key
                     THEN [chat_db EXCEPT ![<<user_id, session_id>>] =
                              @ \o <<Entry("user", QuestionOf(user_id)),
                                     Entry("assistant", AnswerTo(user_id))>>]
                     ELSE chat_db
    /\ UNCHANGED <<verifier_vars, classifier_vars, chat_vars, concurrent_vars,
                   admin_vars, twin_vars>>

\* POST /auth/logout with session_id: the in-memory history of the session is
\* dropped, so that the next request on it reads the database again
logout ==
    /\ \E session_id \in DOMAIN app_conversation_history :
          app_conversation_history' =
              [s \in DOMAIN app_conversation_history \ {session_id} |->
                  app_conversation_history[s]]
    /\ UNCHANGED <<chat_db, passed>>
    /\ UNCHANGED <<verifier_vars, classifier_vars, chat_vars, concurrent_vars,
                   admin_vars, twin_vars>>

NextSessions ==
    \/ ChatRequest
    \/ logout

SpecSessions == InitSessions /\ [][NextSessions]_vars

(***************************************************************************)
(* Properties of the conversation histories                                *)
(***************************************************************************)
\* C30: histories of different users never mix: the conversation history
\* handed to the classifier and to the LLM for a request of a user holds only
\* messages that this user sent or that were answers to this user, also when
\* session_id is omitted or two users use the same session_id.
C30_HistoriesDoNotMix ==
    \A k \in DOMAIN passed :
        \A j \in DOMAIN passed[k].history :
            passed[k].history[j].message
                \in {QuestionOf(passed[k].user_id), AnswerTo(passed[k].user_id)}

(***************************************************************************)
(* Properties of concurrent calls                                          *)
(***************************************************************************)
\* classify_question called alone on each combination of arguments and reply
AloneResults ==
    {<<<<m, h, client, reply>>, classify_question(m, h, client, reply)>> :
        m \in ConcurrentMessages, h \in ConcurrentHistories, client \in BOOLEAN,
        reply \in ConcurrentReplies \cup {NoReply}}

\* what the call would return with no other call in progress
Alone(call) ==
    IF call.method = "is_safe_command" THEN is_safe_command(call.arg)
    ELSE Lookup(AloneResults,
                <<call.arg, heap.history, call.ai_client, call.ai_reply>>)

ReturnsAsAlone ==
    \A t \in DOMAIN invocations :
        Self(t).at = "done" => Self(t).ret = Alone(Self(t))

\* C19: under any interleaving of concurrent is_safe_command and
\* classify_question calls, every call returns what it would return alone,
\* and no step of any call changes the conversation history it was handed.
C19_CallsAreIsolated ==
    []ReturnsAsAlone /\ [][heap'.history = heap.history]_vars

\* a classify_question call has returned while another one, handed the same
\* non-empty history, is between its AI request and the merge of the results
C19_Witness ==
    \E s, t \in DOMAIN invocations :
        /\ s # t
        /\ Self(s).method = "classify_question" /\ Self(s).at = "merge"
        /\ Self(t).method = "classify_question" /\ Self(t).at = "done"
        /\ Self(t).arg # Self(s).arg
        /\ ~Self(t).ret.raised
        /\ heap.history # <<>>
====
